---- MODULE Spec2Model ----
(***************************************************************************)
(* A model of the chart timing core of phire: the per-line note cache      *)
(* (JudgeLineCache, JudgeLine::update, Chart::reset/update/render), the    *)
(* tempo table (BpmList) and the speed integrator (parse_speed_events).    *)
(*                                                                         *)
(* Indices stored in the cache views are 0-based as in the source; the     *)
(* note with index i is notes[i + 1] of the TLA+ sequence.  Times are      *)
(* integers counting seconds; a Hold lasts HoldLength seconds, so the Hold *)
(* scheduled at 1 s is the Hold spanning [1.0, 2.0] s.  A note judged      *)
(* "at 1.5 s" is a note judged between the frame at 1 s and the next one.  *)
(***************************************************************************)
EXTENDS Integers, Sequences, FiniteSets, TLC

VARIABLES
    lines,      \* Chart.lines: sequence of [notes, cache]
    origin,     \* the lines as built by the parser (never changes)
    time,       \* res.time of the last Chart.update
    op,         \* the operation that produced the current state
    bpm,        \* the tempo table being parsed: [items, factor, elements]
    parsed,     \* the events parsed against bpm: [rpe, kfs]
    speed_in,   \* the arguments of parse_speed_events: [layers, max_time]
    height_out, \* its intermediate and final results: [anis, pts0, pts, kfs]
    anim,       \* the curve being evaluated: [which, curves, t, back, limit, value]
    load,       \* a chart document being parsed: [rpe, fs, result]
    frame       \* the frame loop over a chart: its lines, their order, the calls made

cacheVars == <<lines, origin, time>>
bpmVars == <<bpm, parsed>>
speedVars == <<speed_in, height_out>>
otherVars == <<anim, load, frame>>
vars == <<lines, origin, time, op, bpm, parsed, speed_in, height_out, anim, load, frame>>

(***************************************************************************)
(* Bounds of the model.                                                    *)
(***************************************************************************)
MaxNotes == 2       \* notes of the whole chart
MaxTime == 3        \* largest frame time, in seconds
NumLines == 2       \* judge lines of the chart

HoldLength == 1     \* a Hold lasts one second

Kinds == {"Click", "Hold"}
Speeds == {1, 2}
NoteTimes == {1}

(***************************************************************************)
(* Notes.                                                                  *)
(***************************************************************************)
\* One parsed note: the scheduled time t, the height sampled from a
\* displacement curve of unit speed, and for a Hold its end time.
MkNote(kind, above, speed, t) ==
    [kind |-> kind, time |-> t, end_time |-> IF kind = "Hold" THEN t + HoldLength ELSE t,
     height |-> t, y_offset |-> 0, speed |-> speed, above |-> above,
     judge |-> "NotJudged", protected |-> FALSE]

NoteShapes == {MkNote(k, a, s, t) : k \in Kinds, a \in BOOLEAN, s \in Speeds, t \in NoteTimes}

\* The 0-based element access of the source: notes[index].
At(notes, index) == notes[index + 1]

\* notes.get(index).map_or(false, p)
InRange(notes, index) == index >= 0 /\ index < Len(notes)

(***************************************************************************)
(* JudgeLineCache::new: the stable sort by (!above, speed, height +        *)
(* y_offset * speed), then reset.                                          *)
(***************************************************************************)
SortKey(n) == <<IF n.above THEN 0 ELSE 1, n.speed, n.height + n.y_offset * n.speed>>

KeyLess(a, b) ==
    \/ a[1] < b[1]
    \/ a[1] = b[1] /\ a[2] < b[2]
    \/ a[1] = b[1] /\ a[2] = b[2] /\ a[3] < b[3]

\* n is placed after every element whose key is not greater (a stable sort).
RECURSIVE InsertSorted(_, _)
InsertSorted(sorted, n) ==
    IF sorted = <<>> THEN <<n>>
    ELSE IF KeyLess(SortKey(n), SortKey(Head(sorted))) THEN <<n>> \o sorted
    ELSE <<Head(sorted)>> \o InsertSorted(Tail(sorted), n)

RECURSIVE SortNotes(_)
SortNotes(raw) ==
    IF raw = <<>> THEN <<>>
    ELSE InsertSorted(SortNotes(SubSeq(raw, 1, Len(raw) - 1)), raw[Len(raw)])

\* The inner loop of the first while of reset: the first index after `index`
\* whose note is not (above and of the run's speed).
RECURSIVE AboveRunEnd(_, _, _)
AboveRunEnd(notes, index, speed) ==
    IF InRange(notes, index + 1) /\ At(notes, index + 1).above /\ At(notes, index + 1).speed = speed
    THEN AboveRunEnd(notes, index + 1, speed)
    ELSE index + 1

\* The inner loop of the second while of reset: only the speed is compared.
RECURSIVE BelowRunEnd(_, _, _)
BelowRunEnd(notes, index, speed) ==
    IF InRange(notes, index + 1) /\ At(notes, index + 1).speed = speed
    THEN BelowRunEnd(notes, index + 1, speed)
    ELSE index + 1

\* The first while of reset; the result is <<above_indices, index>>.
RECURSIVE AboveScan(_, _, _)
AboveScan(notes, index, acc) ==
    IF InRange(notes, index) /\ At(notes, index).above
    THEN AboveScan(notes, AboveRunEnd(notes, index, At(notes, index).speed), Append(acc, index))
    ELSE <<acc, index>>

\* The second while of reset.
RECURSIVE BelowScan(_, _, _)
BelowScan(notes, index, acc) ==
    IF index # Len(notes)
    THEN BelowScan(notes, BelowRunEnd(notes, index, At(notes, index).speed), Append(acc, index))
    ELSE acc

CacheReset(notes) ==
    LET a == AboveScan(notes, 0, <<>>)
    IN  [update_order |-> [i \in 1..Len(notes) |-> i - 1],
         above_indices |-> a[1],
         below_indices |-> BelowScan(notes, a[2], <<>>)]

CacheNew(raw) ==
    LET notes == SortNotes(raw)
    IN  [notes |-> notes, cache |-> CacheReset(notes)]

(***************************************************************************)
(* JudgeLine::update.                                                      *)
(***************************************************************************)
\* Note::dead at the frame time t.
Dead(note, t) ==
    IF note.kind = "Hold" THEN note.judge = "Judged" /\ t >= note.end_time
    ELSE note.judge = "Judged"

\* Note::update recomputes the note's pose; no modelled field changes.
NoteUpdate(note, t) == note

\* A test that passes over every note whose time has come, judged or not.
NotJudgeByTime(notes, index, t) == At(notes, index).time <= t

\* The closure not_judge of JudgeLine::update.
NotJudge(notes, index, t) ==
    IF At(notes, index).kind = "Hold"
    THEN At(notes, index).judge = "Judged" /\ t > At(notes, index).end_time
    ELSE At(notes, index).judge = "Judged"

Removed == -1

\* The body of above_indices.retain_mut: the pointer's new value, or Removed.
RECURSIVE AdvanceAbove(_, _, _)
AdvanceAbove(notes, index, t) ==
    IF NotJudge(notes, index, t)
    THEN IF InRange(notes, index + 1) /\ At(notes, index + 1).above
            /\ At(notes, index + 1).speed = At(notes, index).speed
         THEN AdvanceAbove(notes, index + 1, t)
         ELSE Removed
    ELSE index

\* The body of below_indices.retain_mut.
RECURSIVE AdvanceBelow(_, _, _)
AdvanceBelow(notes, index, t) ==
    IF NotJudge(notes, index, t)
    THEN IF InRange(notes, index + 1) /\ At(notes, index + 1).speed = At(notes, index).speed
         THEN AdvanceBelow(notes, index + 1, t)
         ELSE Removed
    ELSE index

IsKept(index) == index # Removed

\* A retain that drops every Judged note, a Hold before its end included.
RetainUpdateOrderJudgedOnly(notes, update_order, t) ==
    SelectSeq(update_order, LAMBDA id : At(notes, id).judge # "Judged")

\* A retain that rebuilds the view from all the notes instead of filtering it.
RetainUpdateOrderRebuild(notes, update_order, t) ==
    SelectSeq([i \in 1..Len(notes) |-> i - 1], LAMBDA id : ~Dead(At(notes, id), t))

\* update_order.retain(|id| { note.update(..); !note.dead() })
RetainUpdateOrder(notes, update_order, t) ==
    SelectSeq(update_order, LAMBDA id : ~Dead(NoteUpdate(At(notes, id), t), t))

RetainAbove(notes, above_indices, t) ==
    SelectSeq([k \in 1..Len(above_indices) |-> AdvanceAbove(notes, above_indices[k], t)], IsKept)

\* A pointer that walks on into the next run when its own run is used up.
RECURSIVE AdvanceAnyRun(_, _, _)
AdvanceAnyRun(notes, index, t) ==
    IF NotJudge(notes, index, t)
    THEN IF InRange(notes, index + 1) THEN AdvanceAnyRun(notes, index + 1, t) ELSE Removed
    ELSE index

RetainBelowAnyRun(notes, below_indices, t) ==
    SelectSeq([k \in 1..Len(below_indices) |-> AdvanceAnyRun(notes, below_indices[k], t)], IsKept)

RetainBelow(notes, below_indices, t) ==
    SelectSeq([k \in 1..Len(below_indices) |-> AdvanceBelow(notes, below_indices[k], t)], IsKept)

\* An update that judges by itself every note whose time has come.
JudgeLineUpdateAutoJudge(line, t) ==
    LET notes == [k \in 1..Len(line.notes) |->
                     IF line.notes[k].time <= t
                     THEN [line.notes[k] EXCEPT !.judge = "Judged"] ELSE line.notes[k]]
    IN  [notes |-> notes,
         cache |-> [update_order |-> RetainUpdateOrder(notes, line.cache.update_order, t),
                    above_indices |-> RetainAbove(notes, line.cache.above_indices, t),
                    below_indices |-> RetainBelow(notes, line.cache.below_indices, t)]]

\* An update that judges every note whose time has come once the views
\* have been brought up to date.
JudgeLineUpdateJudgesAfter(line, t) ==
    [notes |-> [k \in 1..Len(line.notes) |->
                   IF line.notes[k].time <= t
                   THEN [line.notes[k] EXCEPT !.judge = "Judged"] ELSE line.notes[k]],
     cache |-> [update_order |-> RetainUpdateOrder(line.notes, line.cache.update_order, t),
                above_indices |-> RetainAbove(line.notes, line.cache.above_indices, t),
                below_indices |-> RetainBelow(line.notes, line.cache.below_indices, t)]]

JudgeLineUpdate(line, t) ==
    LET notes == [k \in 1..Len(line.notes) |->
                     IF \E j \in 1..Len(line.cache.update_order) : line.cache.update_order[j] = k - 1
                     THEN NoteUpdate(line.notes[k], t) ELSE line.notes[k]]
    IN  [notes |-> notes,
         cache |-> [update_order |-> RetainUpdateOrder(line.notes, line.cache.update_order, t),
                    above_indices |-> RetainAbove(notes, line.cache.above_indices, t),
                    below_indices |-> RetainBelow(notes, line.cache.below_indices, t)]]

(***************************************************************************)
(* Chart.                                                                  *)
(***************************************************************************)
\* A reset that forgets the protected flag.
ResetNoteKeepProtected(note) == [note EXCEPT !.judge = "NotJudged"]

\* A reset that also takes the note back to height 0.
ResetNoteRewinds(note) == [note EXCEPT !.judge = "NotJudged", !.protected = FALSE, !.height = 0]

\* Chart::reset: every note NotJudged and unprotected, every cache reset.
ResetNote(note) == [note EXCEPT !.judge = "NotJudged", !.protected = FALSE]

\* A reset that rebuilds the pointers without clearing the old ones.
ResetLineKeepPointers(line) ==
    LET notes == [k \in 1..Len(line.notes) |-> ResetNote(line.notes[k])]
        fresh == CacheReset(notes)
    IN  [notes |-> notes,
         cache |-> [update_order |-> fresh.update_order,
                    above_indices |-> line.cache.above_indices \o fresh.above_indices,
                    below_indices |-> line.cache.below_indices \o fresh.below_indices]]

ResetLine(line) ==
    LET notes == [k \in 1..Len(line.notes) |-> ResetNote(line.notes[k])]
    IN  [notes |-> notes, cache |-> CacheReset(notes)]

RECURSIVE SeqsUpTo(_, _)
SeqsUpTo(S, n) ==
    IF n = 0 THEN {<<>>}
    ELSE LET shorter == SeqsUpTo(S, n - 1)
         IN  shorter \cup {Append(s, x) : s \in {q \in shorter : Len(q) = n - 1}, x \in S}

RECURSIVE TotalNotes(_)
TotalNotes(ls) == IF ls = <<>> THEN 0 ELSE Len(Head(ls).notes) + TotalNotes(Tail(ls))

\* The charts the parser can build: every line is a JudgeLineCache::new.
ParsedLines == {CacheNew(raw) : raw \in SeqsUpTo(NoteShapes, MaxNotes)}

\* The lines do not interact, so the charts are listed with the fuller lines
\* first.
ParsedCharts ==
    {c \in [1..NumLines -> ParsedLines] :
        /\ TotalNotes(c) <= MaxNotes
        /\ \A l \in 1..(NumLines - 1) : Len(c[l].notes) >= Len(c[l + 1].notes)}

NoBpm == [items |-> <<>>, factor |-> 1, elements |-> <<>>]

NoParsed == [rpe |-> <<>>, kfs |-> <<>>]

NoSpeedIn == [layers |-> <<>>, max_time |-> <<0, 1>>]

NoHeightOut == [anis |-> <<>>, pts0 |-> <<>>, pts |-> <<>>, kfs |-> <<>>]

NoAnim ==
    [which |-> "none", curves |-> <<>>, t |-> <<0, 1>>, back |-> FALSE,
     limit |-> "right", value |-> <<0, 1>>]

NoLoad == [rpe |-> [bpm_list |-> <<>>, judge_line_list |-> <<>>], fs |-> "missing",
           result |-> [kind |-> "none"]]

NoFrame == [lines |-> <<>>, order |-> <<>>, attach_ui |-> <<>>, time |-> 0,
            object_time |-> <<>>, transform |-> <<>>, calls |-> <<>>]

\* The parts of the state an operation under study does not use.
NoOther == anim = NoAnim /\ load = NoLoad /\ frame = NoFrame

Init ==
    /\ lines \in ParsedCharts
    /\ origin = lines
    /\ time = 0
    /\ op = "new"
    /\ bpm = NoBpm
    /\ parsed = NoParsed
    /\ speed_in = NoSpeedIn
    /\ height_out = NoHeightOut
    /\ NoOther

\* Chart::update at frame time t.
ChartUpdate(t) ==
    /\ lines' = [l \in 1..Len(lines) |-> JudgeLineUpdate(lines[l], t)]
    /\ time' = t
    /\ op' = "update"
    /\ UNCHANGED <<origin, bpmVars, speedVars, otherVars>>

\* Chart::render borrows the chart immutably.
ChartRender ==
    /\ op' = "render"
    /\ UNCHANGED <<cacheVars, bpmVars, speedVars, otherVars>>

ChartReset ==
    /\ lines' = [l \in 1..Len(lines) |-> ResetLine(lines[l])]
    /\ op' = "reset"
    /\ UNCHANGED <<origin, time, bpmVars, speedVars, otherVars>>

\* The judging collaborator marks note i of line l Judged, and may set its
\* protected flag.
Judge(l, i, p) ==
    /\ At(lines[l].notes, i).judge = "NotJudged"
    /\ lines' = [lines EXCEPT ![l].notes[i + 1].judge = "Judged",
                              ![l].notes[i + 1].protected = p]
    /\ op' = "judge"
    /\ UNCHANGED <<origin, time, bpmVars, speedVars, otherVars>>

Next ==
    \/ \E t \in 0..MaxTime : ChartUpdate(t)
    \/ ChartRender
    \/ ChartReset
    \/ \E l \in 1..Len(lines) : \E i \in 0..(Len(lines[l].notes) - 1) :
          \E p \in BOOLEAN : Judge(l, i, p)

Spec == Init /\ [][Next]_vars

(***************************************************************************)
(* Properties of the note cache.                                           *)
(***************************************************************************)
Elems(seq) == {seq[k] : k \in 1..Len(seq)}

NoteIds(line) == 0..(Len(line.notes) - 1)

\* "Dead" as the data model words it: Click, Flick and Drag when Judged; a
\* Hold when Judged and the current time has reached its end time.
DeadAsSpecified(note, t) ==
    \/ note.kind \in {"Click", "Flick", "Drag"} /\ note.judge = "Judged"
    \/ note.kind = "Hold" /\ note.judge = "Judged" /\ t >= note.end_time

IsScenarioHold(note) == note.kind = "Hold" /\ note.time = 1 /\ note.end_time = 2

\* C1: JudgeLine.update at time t keeps an index in update_order if and only
\* if it was there before the call and its note is not dead at t (dead:
\* Judged, and for a Hold also t >= end_time).  So a Judged Hold spanning
\* [1, 2] stays through every update with t < 2 and leaves at the first
\* update with t >= 2.
C1_UpdateOrderKeepsExactlyTheLiving ==
    [][op' = "update" =>
        \A l \in 1..Len(lines) : \A i \in NoteIds(lines[l]) :
            (i \in Elems(lines'[l].cache.update_order))
                <=> (/\ i \in Elems(lines[l].cache.update_order)
                     /\ ~DeadAsSpecified(At(lines[l].notes, i), time'))]_vars

\* C1 witness: an update at t = 1 has just run over a Judged Hold spanning
\* [1, 2], and the Hold is still in update_order.
C1_Witness ==
    /\ op = "update"
    /\ time = 1
    /\ \E l \in 1..Len(lines) : \E i \in NoteIds(lines[l]) :
          /\ IsScenarioHold(At(lines[l].notes, i))
          /\ At(lines[l].notes, i).judge = "Judged"
          /\ i \in Elems(lines[l].cache.update_order)

\* The notes of the (side, speed) run of p that lie at or after p.
RunFrom(notes, p) ==
    {j \in p..(Len(notes) - 1) :
        \A k \in p..j : /\ At(notes, k).above = At(notes, p).above
                        /\ At(notes, k).speed = At(notes, p).speed}

AliveFrom(notes, p, t) == {j \in RunFrom(notes, p) : ~DeadAsSpecified(At(notes, j), t)}

Least(S) == CHOOSE x \in S : \A y \in S : x <= y

\* The pointers that the specified rule leaves of `pointers` at time t.
PointersAsSpecified(notes, pointers, t) ==
    LET moved == [k \in 1..Len(pointers) |->
                     IF AliveFrom(notes, pointers[k], t) = {} THEN Removed
                     ELSE Least(AliveFrom(notes, pointers[k], t))]
    IN  SelectSeq(moved, IsKept)

\* C2: after JudgeLine.update at time t every surviving entry of
\* above_indices / below_indices points to the first note at or after its
\* previous position, inside the same (side, speed) run, that is not dead at
\* t (a Hold being dead when Judged and t >= end_time), and an entry is
\* removed exactly when every note from its position to the end of its run
\* is dead.
C2_PointersSkipExactlyTheDead ==
    [][op' = "update" =>
        \A l \in 1..Len(lines) :
            /\ lines'[l].cache.above_indices
                 = PointersAsSpecified(lines[l].notes, lines[l].cache.above_indices, time')
            /\ lines'[l].cache.below_indices
                 = PointersAsSpecified(lines[l].notes, lines[l].cache.below_indices, time')]_vars

\* C3: between two resets update_order only shrinks, whatever the order of
\* the frame times: every step that is not a reset leaves each line's
\* update_order a subset of what it was.
C3_UpdateOrderOnlyShrinks ==
    [][op' # "reset" =>
        \A l \in 1..Len(lines) :
            Elems(lines'[l].cache.update_order) \subseteq Elems(lines[l].cache.update_order)]_vars

\* C3 witness: a Judged Hold was removed (at or after its end time) and an
\* update at an earlier time has run since: the Hold has not come back.
C3_Witness ==
    /\ op = "update"
    /\ \E l \in 1..Len(lines) : \E i \in NoteIds(lines[l]) :
          /\ At(lines[l].notes, i).kind = "Hold"
          /\ time < At(lines[l].notes, i).end_time
          /\ i \notin Elems(lines[l].cache.update_order)

\* The first notes of the (side, speed) runs of one side, in order.
RunStarts(notes, above) ==
    SelectSeq([k \in 1..Len(notes) |-> k - 1],
              LAMBDA i : /\ At(notes, i).above = above
                         /\ \/ i = 0
                            \/ At(notes, i - 1).above # above
                            \/ At(notes, i - 1).speed # At(notes, i).speed)

ViewsAsBuilt(line) ==
    /\ line.cache.update_order = [k \in 1..Len(line.notes) |-> k - 1]
    /\ line.cache.above_indices = RunStarts(line.notes, TRUE)
    /\ line.cache.below_indices = RunStarts(line.notes, FALSE)

\* C4: a reset after any updates and judgings leaves the three views equal
\* to those of the original construction (update_order all the indices, one
\* pointer at the first note of every (side, speed) run), and a reset right
\* after a reset gives the same views again.
C4_ResetRebuildsTheOriginalViews ==
    [][op' = "reset" =>
        \A l \in 1..Len(lines) :
            /\ lines'[l].cache = origin[l].cache
            /\ ViewsAsBuilt(lines'[l])
            /\ op = "reset" => lines'[l].cache = lines[l].cache]_vars

\* C4 witness: a reset has run after some update, on a line with two runs.
C4_Witness ==
    /\ op = "reset"
    /\ time > 0
    /\ \E l \in 1..Len(lines) :
          Len(lines[l].cache.above_indices) + Len(lines[l].cache.below_indices) >= 2

StaticFields(note) ==
    [kind |-> note.kind, time |-> note.time, end_time |-> note.end_time,
     height |-> note.height, y_offset |-> note.y_offset, speed |-> note.speed,
     above |-> note.above]

\* C5: right after Chart.reset every note of every line is NotJudged and
\* unprotected, every line's update_order holds every note index again, and
\* the notes are the parsed ones (nothing is parsed again).
C5_ResetRestoresEveryNote ==
    op = "reset" =>
        \A l \in 1..Len(lines) :
            /\ Len(lines[l].notes) = Len(origin[l].notes)
            /\ Elems(lines[l].cache.update_order) = NoteIds(lines[l])
            /\ \A i \in NoteIds(lines[l]) :
                  /\ At(lines[l].notes, i).judge = "NotJudged"
                  /\ At(lines[l].notes, i).protected = FALSE
                  /\ StaticFields(At(lines[l].notes, i)) = StaticFields(At(origin[l].notes, i))

\* C5 witness: a reset has run after some update on a chart with notes on
\* two lines.
C5_Witness ==
    /\ op = "reset"
    /\ time > 0
    /\ \A l \in 1..Len(lines) : Len(lines[l].notes) > 0

\* C6: a judge status changes only from NotJudged to Judged, by the judging
\* collaborator, or back to NotJudged, by Chart.reset; Chart.update (with
\* JudgeLine.update) and the render pass change no judge status.
C6_JudgeStatusLifecycle ==
    [][\A l \in 1..Len(lines) : \A i \in NoteIds(lines[l]) :
          At(lines'[l].notes, i).judge # At(lines[l].notes, i).judge =>
              \/ /\ op' = "judge"
                 /\ At(lines[l].notes, i).judge = "NotJudged"
                 /\ At(lines'[l].notes, i).judge = "Judged"
              \/ /\ op' = "reset"
                 /\ At(lines'[l].notes, i).judge = "NotJudged"]_vars

\* C6 witness: an update has run over a note that was not Judged although
\* its time has come, and over one that was Judged.
C6_Witness ==
    /\ op = "update"
    /\ \E l \in 1..Len(lines) : \E i, j \in NoteIds(lines[l]) :
          /\ At(lines[l].notes, i).judge = "NotJudged"
          /\ At(lines[l].notes, i).time <= time
          /\ At(lines[l].notes, j).judge = "Judged"

(***************************************************************************)
(* Exact arithmetic: a number is <<numerator, denominator>> in lowest      *)
(* terms with a positive denominator; a division by zero gives <<0, 0>>,   *)
(* which every further operation keeps.                                    *)
(***************************************************************************)
Abs(x) == IF x < 0 THEN -x ELSE x

RECURSIVE GCD(_, _)
GCD(a, b) == IF b = 0 THEN a ELSE GCD(b, a % b)

Rat(n, d) ==
    IF d = 0 THEN <<0, 0>>
    ELSE LET g == GCD(Abs(n), Abs(d))
             sgn == IF d < 0 THEN -1 ELSE 1
         IN  <<(sgn * n) \div g, (sgn * d) \div g>>

RInt(i) == <<i, 1>>
RAdd(a, b) == Rat(a[1] * b[2] + b[1] * a[2], a[2] * b[2])
RSub(a, b) == Rat(a[1] * b[2] - b[1] * a[2], a[2] * b[2])
RMul(a, b) == Rat(a[1] * b[1], a[2] * b[2])
RDiv(a, b) == Rat(a[1] * b[2], a[2] * b[1])
RLt(a, b) == a[1] * b[2] < b[1] * a[2]
RLe(a, b) == a[1] * b[2] <= b[1] * a[2]
RZero == RInt(0)
ROne == RInt(1)

(***************************************************************************)
(* The tempo table (BpmList) and parse_events.                             *)
(***************************************************************************)
MaxBpmItems == 2    \* breakpoints of a tempo table
MaxBeat == 2        \* largest integer beat of a triple

BpmValues == {60, 120}
BpmFactors == {1, 2, -1}
Fractions == {<<0, 1>>, <<1, 4>>, <<1, 2>>}

\* Triple::beats: [beat, num, den] is beat + num / den.
Beats(triple) == RAdd(RInt(triple[1]), Rat(triple[2], triple[3]))

Triples == {<<b, f[1], f[2]>> : b \in 0..MaxBeat, f \in Fractions}

\* BpmList::new: (beats, bpm) pairs walked in order, the seconds accumulated.
RECURSIVE BpmListNew(_)
BpmListNew(ranges) ==
    IF ranges = <<>> THEN <<>>
    ELSE LET before == BpmListNew(SubSeq(ranges, 1, Len(ranges) - 1))
             now == ranges[Len(ranges)]
             acc == IF before = <<>> THEN RZero
                    ELSE LET last == before[Len(before)]
                         IN  RAdd(last.time,
                                  RMul(RSub(now[1], last.beats), RDiv(RInt(60), last.bpm)))
         IN  Append(before, [beats |-> now[1], time |-> acc, bpm |-> now[2]])

\* BpmList::time_beats: the last breakpoint at or before `beats` (the first
\* one when there is none), and the seconds from it.
BpmTimeBeats(elements, beats) ==
    LET at == {k \in 1..Len(elements) : RLe(elements[k].beats, beats)}
        cursor == IF at = {} THEN 1 ELSE CHOOSE k \in at : \A j \in at : j <= k
        e == elements[cursor]
    IN  RAdd(e.time, RMul(RSub(beats, e.beats), RDiv(RInt(60), e.bpm)))

\* BpmList::time
BpmTime(elements, triple) == BpmTimeBeats(elements, Beats(triple))

\* parse_rpe: the chart's own table.
ChartBpmList(items) ==
    BpmListNew([k \in 1..Len(items) |-> <<Beats(items[k].start_time), RInt(items[k].bpm)>>])

\* A table that multiplies by the factor.
LineBpmListTimesFactor(items, factor) ==
    BpmListNew([k \in 1..Len(items) |->
                   <<Beats(items[k].start_time), RMul(RInt(items[k].bpm), RInt(factor))>>])

\* parse_judge_line: the line's table, every bpm divided by the line's
\* bpmfactor.
LineBpmList(items, factor) ==
    BpmListNew([k \in 1..Len(items) |->
                   <<Beats(items[k].start_time), RDiv(RInt(items[k].bpm), RInt(factor))>>])

\* The loop body of parse_events: the two keyframes of one event.
EventKeyframes(elements, e) ==
    <<[time |-> BpmTime(elements, e.start_time), value |-> e.start, tween |-> 2],
      [time |-> BpmTime(elements, e.end_time), value |-> e.end, tween |-> 0]>>

\* parse_events as events_with_factor calls it (default = None).
RECURSIVE ParseEventsOf(_, _)
ParseEventsOf(elements, rpe) ==
    IF rpe = <<>> THEN <<>>
    ELSE EventKeyframes(elements, Head(rpe)) \o ParseEventsOf(elements, Tail(rpe))

RPEBpmItems == [bpm : BpmValues, start_time : {<<b, 0, 1>> : b \in 0..MaxBeat}]

RPEEvents == [start : {0}, end : {1}, start_time : Triples, end_time : Triples]

RPEEventLists == {<<>>} \cup {<<e>> : e \in RPEEvents}

\* Tables sorted ascending by beat, as the format requires.
IsSortedByBeat(items) ==
    \A k \in 1..(Len(items) - 1) : RLe(Beats(items[k].start_time), Beats(items[k + 1].start_time))

RPEBpmLists == {items \in SeqsUpTo(RPEBpmItems, MaxBpmItems) : items # <<>> /\ IsSortedByBeat(items)}

LoadedBpm ==
    {[items |-> items, factor |-> 1, elements |-> ChartBpmList(items)] : items \in RPEBpmLists}
    \cup {[items |-> items, factor |-> f, elements |-> LineBpmList(items, f)] :
             items \in RPEBpmLists, f \in BpmFactors}

InitBpm ==
    /\ lines = <<>>
    /\ origin = <<>>
    /\ time = 0
    /\ op = "new"
    /\ bpm \in LoadedBpm
    /\ parsed = NoParsed
    /\ speed_in = NoSpeedIn
    /\ height_out = NoHeightOut
    /\ NoOther

\* One call of parse_events on the loaded table.
ParseEvents(rpe) ==
    /\ op = "new"
    /\ parsed' = [rpe |-> rpe, kfs |-> ParseEventsOf(bpm.elements, rpe)]
    /\ op' = "parse_events"
    /\ UNCHANGED <<cacheVars, bpm, speedVars, otherVars>>

NextBpm == \E rpe \in RPEEventLists : ParseEvents(rpe)

SpecBpm == InitBpm /\ [][NextBpm]_vars

HasParsedEvent == op = "parse_events" /\ parsed.rpe # <<>>

\* The beat of item k, and the seconds per beat of its segment.
ItemBeat(k) == Beats(bpm.items[k].start_time)

SecondsPerBeat(k) == Rat(60 * bpm.factor, bpm.items[k].bpm)

\* The seconds accumulated at item k: the lengths of the segments before it.
RECURSIVE SecondsAt(_)
SecondsAt(k) ==
    IF k = 1 THEN RZero
    ELSE RAdd(SecondsAt(k - 1), RMul(RSub(ItemBeat(k), ItemBeat(k - 1)), SecondsPerBeat(k - 1)))

HasBreakpointAtOrBefore(pos) == \E k \in 1..Len(bpm.items) : RLe(ItemBeat(k), pos)

LastBreakpoint(pos) ==
    CHOOSE k \in 1..Len(bpm.items) :
        /\ RLe(ItemBeat(k), pos)
        /\ \A j \in 1..Len(bpm.items) : RLe(ItemBeat(j), pos) => j <= k

SecondsAsSpecified(pos) ==
    RAdd(SecondsAt(LastBreakpoint(pos)),
         RMul(RSub(pos, ItemBeat(LastBreakpoint(pos))), SecondsPerBeat(LastBreakpoint(pos))))

\* C9: the time of a beat position is the seconds accumulated at the last
\* breakpoint at or before it plus (position - breakpoint.beat) * 60 /
\* breakpoint.bpm, a triple [beat, num, den] being beat + num / den; with the
\* table [(beat 0, bpm 120)] the triple (0, 1, 4) is at 0.125 s.
C9_TimeOfBeatPosition ==
    HasParsedEvent =>
        /\ HasBreakpointAtOrBefore(Beats(parsed.rpe[1].start_time)) =>
              parsed.kfs[1].time = SecondsAsSpecified(Beats(parsed.rpe[1].start_time))
        /\ HasBreakpointAtOrBefore(Beats(parsed.rpe[1].end_time)) =>
              parsed.kfs[2].time = SecondsAsSpecified(Beats(parsed.rpe[1].end_time))
        /\ (/\ bpm.items = <<[bpm |-> 120, start_time |-> <<0, 0, 1>>]>>
            /\ bpm.factor = 1
            /\ parsed.rpe[1].start_time = <<0, 1, 4>>) => parsed.kfs[1].time = <<1, 8>>

\* C9 witness: the event starts a quarter beat into the second segment of a
\* two-tempo table of a line whose bpmfactor is 2.
C9_Witness ==
    /\ HasParsedEvent
    /\ Len(bpm.items) = 2
    /\ bpm.factor = 2
    /\ bpm.items[1].bpm # bpm.items[2].bpm
    /\ bpm.items[1].start_time = <<0, 0, 1>>
    /\ bpm.items[2].start_time = <<1, 0, 1>>
    /\ parsed.rpe[1].start_time = <<1, 1, 4>>

EventInBeatOrder == RLe(Beats(parsed.rpe[1].start_time), Beats(parsed.rpe[1].end_time))

\* C10: for a table sorted ascending by beat, time(b1) <= time(b2) whenever
\* b1 <= b2, also across breakpoints.
C10_TimeIsMonotone ==
    (HasParsedEvent /\ IsSortedByBeat(bpm.items) /\ EventInBeatOrder) =>
        RLe(parsed.kfs[1].time, parsed.kfs[2].time)

\* The same statement for the tables whose tempos (each bpm divided by the
\* line's bpmfactor) are all positive.
TimeIsMonotoneForPositiveTempo ==
    (/\ HasParsedEvent
     /\ IsSortedByBeat(bpm.items)
     /\ \A k \in 1..Len(bpm.items) : bpm.items[k].bpm * bpm.factor > 0
     /\ EventInBeatOrder) =>
        RLe(parsed.kfs[1].time, parsed.kfs[2].time)

(***************************************************************************)
(* Animation curves: a keyframe is [time, value, tween]; a curve is a      *)
(* sequence of keyframes; a chained curve is a sequence of curves.         *)
(***************************************************************************)
StaticTween(id) == [kind |-> "static", id |-> id, lo |-> RZero, hi |-> ROne]

ClampedTween(id, lo, hi) == [kind |-> "clamped", id |-> id, lo |-> lo, hi |-> hi]

Keyframe(t, value, tween) == [time |-> t, value |-> value, tween |-> StaticTween(tween)]

\* f32::tween: x + (y - x) * t
Tween(x, y, t) == RAdd(x, RMul(RSub(y, x), t))

\* The easing functions the parser names: 0 hold, 2 linear, 6 quadIn,
\* 7 quadOut.
TweenFunction(id, x) ==
    CASE id = 0 -> RZero
      [] id = 2 -> x
      [] id = 6 -> RMul(x, x)
      [] id = 7 -> RSub(ROne, RMul(RSub(ROne, x), RSub(ROne, x)))

\* TweenFunction::y: a clamped tween walks the sub-range [lo, hi] of its
\* easing function, rescaled to start at 0 and end at 1.
TweenY(tween, x) ==
    IF tween.kind = "static" THEN TweenFunction(tween.id, x)
    ELSE RDiv(RSub(TweenFunction(tween.id, Tween(tween.lo, tween.hi, x)),
                   TweenFunction(tween.id, tween.lo)),
              RSub(TweenFunction(tween.id, tween.hi),
                   TweenFunction(tween.id, tween.lo)))

\* Anim::set_time then Anim::now (limit "right"), or Anim::set_time,
\* Anim::set_previous, Anim::now (limit "left").
Evaluate(kfs, t, limit) ==
    IF kfs = <<>> THEN RZero
    ELSE LET at == {k \in 1..Len(kfs) : RLe(kfs[k].time, t)}
             found == IF at = {} THEN 1 ELSE CHOOSE k \in at : \A j \in at : j <= k
             cursor == IF limit = "left" /\ found > 1 /\ kfs[found].time = t
                       THEN found - 1 ELSE found
         IN  IF at = {} THEN kfs[1].value
             ELSE IF cursor = Len(kfs) THEN kfs[cursor].value
             ELSE LET kf1 == kfs[cursor]
                      kf2 == kfs[cursor + 1]
                  IN  IF kf1.time = kf2.time THEN kf1.value
                      ELSE Tween(kf1.value, kf2.value,
                                 TweenY(kf1.tween,
                                        RDiv(RSub(t, kf1.time), RSub(kf2.time, kf1.time))))

\* AnimFloat::chain, evaluated: the sum of the chained curves.
RECURSIVE ChainNow(_, _, _)
ChainNow(anis, t, limit) ==
    IF anis = <<>> THEN RZero
    ELSE RAdd(Evaluate(Head(anis), t, limit), ChainNow(Tail(anis), t, limit))

\* Anim::map_value with v * k, on every curve of a chain.
MapValue(anis, k) ==
    [a \in 1..Len(anis) |->
        [j \in 1..Len(anis[a]) |-> [anis[a][j] EXCEPT !.value = RMul(@, k)]]]

(***************************************************************************)
(* The speed integrator: parse_speed_events.                               *)
(***************************************************************************)
MaxSpeedEvents == 2    \* speed events of a line, over all its layers

SpeedValues == {-2, 0, 2}

\* SPEED_RATIO = 10 / 45 / HEIGHT_RATIO, heights counted in units of
\* 1 / HEIGHT_RATIO.
SPEED_RATIO == Rat(10, 45)

EPS == Rat(1, 100000)

RAbs(a) == <<Abs(a[1]), a[2]>>

\* f32::signum: 1 for +0 and above, -1 below.
Signum(a) == IF a[1] < 0 THEN -1 ELSE 1

\* sort and dedup of a set of times.
RECURSIVE SortedPts(_)
SortedPts(S) ==
    IF S = {} THEN <<>>
    ELSE LET m == CHOOSE x \in S : \A y \in S : RLe(x, y)
         IN  <<m>> \o SortedPts(S \ {m})

\* The points of a sequence of times.
PtsSet(pts) == {pts[i] : i \in 1..Len(pts)}

\* One layer's keyframes: two per event, start (linear) and end (hold).
RECURSIVE LayerKeyframes(_, _)
LayerKeyframes(elements, events) ==
    IF events = <<>> THEN <<>>
    ELSE LET e == Head(events)
         IN  <<Keyframe(BpmTime(elements, e.start_time), RInt(e.start), 2),
               Keyframe(BpmTime(elements, e.end_time), RInt(e.end), 0)>>
             \o LayerKeyframes(elements, Tail(events))

SpeedAnis(elements, layers) ==
    [a \in 1..Len(layers) |-> LayerKeyframes(elements, layers[a])]

\* A scaling that reaches the first curve of the chain only.
SaniFirstOnly(anis) ==
    [a \in 1..Len(anis) |-> IF a = 1 THEN MapValue(anis, SPEED_RATIO)[a] ELSE anis[a]]

\* The chained, unit-scaled speed curve.
Sani(anis) == MapValue(anis, SPEED_RATIO)

\* Every keyframe time plus the chart end, sorted and deduplicated.
CollectPts(anis, max_time) ==
    SortedPts(UNION {{anis[a][j].time : j \in 1..Len(anis[a])} : a \in 1..Len(anis)}
              \cup {max_time})

StartSpeed(sani, pts, i) == ChainNow(sani, pts[i], "right")

EndSpeed(sani, pts, i) == ChainNow(sani, pts[i + 1], "left")

\* The loop's test and the point it pushes.
ChangesSign(speed, end_speed) == Signum(speed) * Signum(end_speed) < 0

ZeroCrossing(now_time, next_time, speed, end_speed) ==
    Tween(now_time, next_time, RDiv(speed, RSub(speed, end_speed)))

\* The first pass: one test of every interval of the collected points.
InsertNoCrossings(sani, pts) == pts

InsertZeroCrossings(sani, pts) ==
    SortedPts({pts[i] : i \in 1..Len(pts)}
              \cup {ZeroCrossing(pts[i], pts[i + 1],
                                 StartSpeed(sani, pts, i), EndSpeed(sani, pts, i)) :
                      i \in {j \in 1..(Len(pts) - 1) :
                              ChangesSign(StartSpeed(sani, pts, j),
                                          EndSpeed(sani, pts, j))}})

\* The area the second pass adds for interval i.
Area(sani, pts, i) ==
    RDiv(RMul(RAdd(StartSpeed(sani, pts, i), EndSpeed(sani, pts, i)),
              RSub(pts[i + 1], pts[i])),
         RInt(2))

\* height when the second pass reaches interval i.
RECURSIVE HeightBefore(_, _, _)
HeightBefore(sani, pts, i) ==
    IF i = 1 THEN RZero
    ELSE RAdd(HeightBefore(sani, pts, i - 1), Area(sani, pts, i - 1))

\* A keyframe that is linear whatever the speeds are.
HeightKeyframeLinear(sani, pts, i) == Keyframe(pts[i], HeightBefore(sani, pts, i), 2)

\* The keyframe pushed for interval i.
HeightKeyframe(sani, pts, i) ==
    LET speed == StartSpeed(sani, pts, i)
        end_speed == EndSpeed(sani, pts, i)
        height == HeightBefore(sani, pts, i)
    IN  IF RLt(RAbs(RSub(speed, end_speed)), EPS)
        THEN Keyframe(pts[i], height, 2)
        ELSE IF RLt(RAbs(end_speed), RAbs(speed))
        THEN [time |-> pts[i], value |-> height,
              tween |-> ClampedTween(7, RZero, RSub(ROne, RDiv(end_speed, speed)))]
        ELSE [time |-> pts[i], value |-> height,
              tween |-> ClampedTween(6, RDiv(speed, end_speed), ROne)]

HeightKeyframes(sani, pts, max_time) ==
    [i \in 1..(Len(pts) - 1) |-> HeightKeyframe(sani, pts, i)]
    \o <<Keyframe(max_time, HeightBefore(sani, pts, Len(pts)), 0)>>

\* parse_speed_events: every intermediate result and the returned curve.
ParseSpeedEventsOf(elements, layers, max_time) ==
    IF layers = <<>> THEN [anis |-> <<>>, pts0 |-> <<>>, pts |-> <<>>, kfs |-> <<>>]
    ELSE LET anis == SpeedAnis(elements, layers)
             pts0 == CollectPts(anis, max_time)
             sani == Sani(anis)
             pts == InsertZeroCrossings(sani, pts0)
         IN  [anis |-> sani, pts0 |-> pts0, pts |-> pts,
              kfs |-> HeightKeyframes(sani, pts, max_time)]

\* RPESpeedEvent, on whole beats, the event ending after it starts.
RPESpeedEvents ==
    {e \in [start_time : {<<b, 0, 1>> : b \in 0..MaxBeat},
            end_time : {<<b, 0, 1>> : b \in 0..MaxBeat},
            start : SpeedValues, end : SpeedValues] :
        e.start_time[1] < e.end_time[1]}

\* RPEEventLayer.speed_events: events in time order, none overlapping.
SpeedEventLists ==
    {l \in SeqsUpTo(RPESpeedEvents, MaxSpeedEvents) :
        \A k \in 1..(Len(l) - 1) : l[k].end_time[1] <= l[k + 1].start_time[1]}

\* The layers of a line that carry speed events: none, one, or two of
\* which the second holds one event (the chained sum does not depend on
\* the order of the layers).
SpeedLayers ==
    {<<>>} \cup {<<l>> : l \in SpeedEventLists}
    \cup {<<l1, l2>> : l1 \in {l \in SpeedEventLists : Len(l) \in 1..(MaxSpeedEvents - 1)},
                       l2 \in {l \in SpeedEventLists : Len(l) = 1}}

\* parse_rpe: the chart end, one second after the last note or non-speed
\* event ends.
ChartEnds == {RInt(m) : m \in 1..MaxBeat}

SpeedBpm == LineBpmList(<<[bpm |-> 60, start_time |-> <<0, 0, 1>>]>>, 1)

SpeedInputs == [layers : SpeedLayers, max_time : ChartEnds]

InitSpeed ==
    /\ lines = <<>>
    /\ origin = <<>>
    /\ time = 0
    /\ op = "new"
    /\ bpm = NoBpm
    /\ parsed = NoParsed
    /\ speed_in \in SpeedInputs
    /\ height_out = NoHeightOut
    /\ NoOther

ParseSpeedEvents ==
    /\ op = "new"
    /\ height_out' = ParseSpeedEventsOf(SpeedBpm, speed_in.layers, speed_in.max_time)
    /\ op' = "parse_speed_events"
    /\ UNCHANGED <<cacheVars, bpmVars, speed_in, otherVars>>

NextSpeed == ParseSpeedEvents

SpecSpeed == InitSpeed /\ [][NextSpeed]_vars

(***************************************************************************)
(* Claims about the speed integrator.                                      *)
(***************************************************************************)
HasIntegrated == op = "parse_speed_events" /\ speed_in.layers # <<>>

InputSpeed(t, limit) == ChainNow(height_out.anis, t, limit)

Height(t, limit) == Evaluate(height_out.kfs, t, limit)

Midpoint(a, b) == RDiv(RAdd(a, b), RInt(2))

\* (speed_start + speed_end) * duration / 2 over interval j of the final
\* breakpoints.
Trapezoid(j) ==
    LET P == height_out.pts
    IN  RDiv(RMul(RAdd(InputSpeed(P[j], "right"), InputSpeed(P[j + 1], "left")),
                  RSub(P[j + 1], P[j])),
             RInt(2))

\* The running total at breakpoint i: the areas of intervals 1 .. i-1.
RECURSIVE RunningTotal(_)
RunningTotal(i) == IF i <= 1 THEN RZero ELSE RAdd(RunningTotal(i - 1), Trapezoid(i - 1))

\* The integral of the linear speed from the start of interval i to its
\* midpoint: s * d/2 + (e - s) * d/8.
HalfwayArea(i) ==
    LET P == height_out.pts
        s == InputSpeed(P[i], "right")
        e == InputSpeed(P[i + 1], "left")
        d == RSub(P[i + 1], P[i])
    IN  RAdd(RDiv(RMul(s, d), RInt(2)), RDiv(RMul(RSub(e, s), d), RInt(8)))

\* On interval i the curve is the integral of the speed: both are
\* polynomials of degree at most two in t, so they are the same function,
\* and have the same slope, when they agree at the start, the midpoint and
\* the end of the interval.
IntegratesInterval(i) ==
    LET P == height_out.pts
    IN  /\ height_out.kfs[i].time = P[i]
        /\ height_out.kfs[i].value = RunningTotal(i)
        /\ Height(P[i], "right") = RunningTotal(i)
        /\ Height(Midpoint(P[i], P[i + 1]), "right") = RAdd(RunningTotal(i), HalfwayArea(i))
        /\ Height(P[i + 1], "left") = RunningTotal(i + 1)

ContinuousAt(t) == Height(t, "left") = Height(t, "right")

\* C7: the displacement curve is continuous at every breakpoint, inserted
\* zero crossings included; the keyframe at each interval start holds the
\* running total of the trapezoid areas of the earlier intervals, from 0;
\* and on every open sub-interval the curve's slope is the input speed.
C7_HeightIntegratesSpeed ==
    HasIntegrated =>
        /\ \A i \in 1..(Len(height_out.pts) - 1) : IntegratesInterval(i)
        /\ \A i \in 1..Len(height_out.pts) : ContinuousAt(height_out.pts[i])

\* The same statement for the lines whose speed events all end by the
\* chart end.
EndsByChartEnd ==
    \A i \in 1..Len(height_out.pts) : RLe(height_out.pts[i], speed_in.max_time)

HeightIntegratesSpeedUntilChartEnd ==
    (HasIntegrated /\ EndsByChartEnd) => C7_HeightIntegratesSpeed

StrictlyOpposite(s, e) == (s[1] > 0 /\ e[1] < 0) \/ (s[1] < 0 /\ e[1] > 0)

Between(a, p, b) == RLt(a, p) /\ RLt(p, b)

\* What the first pass added inside interval i of the collected points.
InsertedIn(i) ==
    LET P0 == height_out.pts0
    IN  {p \in PtsSet(height_out.pts) : Between(P0[i], p, P0[i + 1])}

IsScenarioSpeed ==
    speed_in.layers = <<<<[start_time |-> <<0, 0, 1>>, end_time |-> <<1, 0, 1>>,
                           start |-> 2, end |-> -2]>>>>

\* C8: an interval whose start and end speeds have strictly opposite signs
\* gets the zero of the linear speed as a breakpoint, an interval gets at
\* most one new breakpoint, and no interval of the final breakpoints has
\* start and end speeds of strictly opposite sign; a speed going linearly
\* from 2 to -2 over [0, 1] gets the breakpoint 1/2, height 0 at 0 and at 1,
\* and its greatest height at 1/2.
C8_ZeroCrossingsSplitIntervals ==
    HasIntegrated =>
        LET P0 == height_out.pts0
            P == height_out.pts
        IN  /\ PtsSet(P0) \subseteq PtsSet(P)
            /\ \A i \in 1..(Len(P0) - 1) :
                /\ Cardinality(InsertedIn(i)) <= 1
                /\ StrictlyOpposite(InputSpeed(P0[i], "right"), InputSpeed(P0[i + 1], "left"))
                    => \E z \in InsertedIn(i) : InputSpeed(z, "right") = RZero
            /\ \A i \in 1..(Len(P) - 1) :
                ~StrictlyOpposite(InputSpeed(P[i], "right"), InputSpeed(P[i + 1], "left"))
            /\ IsScenarioSpeed =>
                /\ PtsSet(P) \ PtsSet(P0) = {Rat(1, 2)}
                /\ Height(RZero, "right") = RZero
                /\ Height(ROne, "right") = RZero
                /\ RLt(RZero, Height(Rat(1, 2), "right"))
                /\ \A i \in 1..(Len(P) - 1) :
                    /\ RLe(Height(P[i], "right"), Height(Rat(1, 2), "right"))
                    /\ RLe(Height(Midpoint(P[i], P[i + 1]), "right"),
                           Height(Rat(1, 2), "right"))

\* C8 witness: the scenario has been integrated and its crossing inserted.
C8_Witness ==
    /\ HasIntegrated
    /\ IsScenarioSpeed
    /\ Rat(1, 2) \in PtsSet(height_out.pts)
    /\ Rat(1, 2) \notin PtsSet(height_out.pts0)

(***************************************************************************)
(* Curves with a cursor: an Anim is [kfs, time, cursor], the cursor being  *)
(* the (1-based) keyframe the next evaluation starts from.  A chained      *)
(* curve is the sequence of its Anims.                                     *)
(***************************************************************************)
\* Anim::new
AnimNew(kfs) == [kfs |-> kfs, time |-> RZero, cursor |-> 1]

\* The full bracket search: the last keyframe at or before t, the first
\* keyframe when there is none.
BracketSearch(kfs, t) ==
    LET at == {k \in 1..Len(kfs) : RLe(kfs[k].time, t)}
    IN  IF at = {} THEN 1 ELSE CHOOSE k \in at : \A j \in at : j <= k

\* The forward cursor: skip the keyframes consumed by time t.
RECURSIVE Forward(_, _, _)
Forward(kfs, cursor, t) ==
    IF cursor < Len(kfs) /\ RLe(kfs[cursor + 1].time, t)
    THEN Forward(kfs, cursor + 1, t)
    ELSE cursor

\* A set_time that only ever moves the cursor forward.
AnimSetTimeForwardOnly(a, t) ==
    IF a.kfs = <<>> THEN [a EXCEPT !.time = t]
    ELSE [a EXCEPT !.time = t, !.cursor = Forward(a.kfs, a.cursor, t)]

\* Anim::set_time: forward from the cursor, or, when time jumps backward,
\* a full bracket search.
AnimSetTime(a, t) ==
    IF a.kfs = <<>> THEN [a EXCEPT !.time = t]
    ELSE IF RLt(t, a.time)
    THEN [a EXCEPT !.time = t, !.cursor = BracketSearch(a.kfs, t)]
    ELSE [a EXCEPT !.time = t, !.cursor = Forward(a.kfs, a.cursor, t)]

\* Anim::set_previous: step back from a keyframe that sits at the current
\* time, so that the next evaluation is the left limit.
AnimSetPrevious(a) ==
    IF a.kfs # <<>> /\ a.cursor > 1 /\ a.kfs[a.cursor].time = a.time
    THEN [a EXCEPT !.cursor = a.cursor - 1]
    ELSE a

\* Anim::now, from the cursor.
AnimNow(a) ==
    IF a.kfs = <<>> THEN RZero
    ELSE IF a.cursor = Len(a.kfs) THEN a.kfs[a.cursor].value
    ELSE LET kf1 == a.kfs[a.cursor]
             kf2 == a.kfs[a.cursor + 1]
         IN  IF RLt(a.time, kf1.time) \/ kf1.time = kf2.time THEN kf1.value
             ELSE Tween(kf1.value, kf2.value,
                        TweenY(kf1.tween,
                               RDiv(RSub(a.time, kf1.time), RSub(kf2.time, kf1.time))))

\* The same three operations on a chained curve: every curve of the chain
\* moves, and the value is the sum.
ChainSetTime(curves, t) == [k \in 1..Len(curves) |-> AnimSetTime(curves[k], t)]

ChainSetPrevious(curves) == [k \in 1..Len(curves) |-> AnimSetPrevious(curves[k])]

RECURSIVE ChainValue(_)
ChainValue(curves) ==
    IF curves = <<>> THEN RZero
    ELSE RAdd(AnimNow(Head(curves)), ChainValue(Tail(curves)))

(***************************************************************************)
(* Evaluating the curves of a line: the chained speed curve inside         *)
(* parse_speed_events, then the height curve it returns (parse_notes,      *)
(* JudgeLine::update, JudgeLine::render).                                  *)
(***************************************************************************)
\* Speed events as above, none of them touching speed 0.
AnimInputs ==
    {in \in SpeedInputs :
        \A a \in 1..Len(in.layers) : \A j \in 1..Len(in.layers[a]) :
            in.layers[a][j].start # 0 /\ in.layers[a][j].end # 0}

InitAnim ==
    /\ lines = <<>>
    /\ origin = <<>>
    /\ time = 0
    /\ op = "new"
    /\ bpm = NoBpm
    /\ parsed = NoParsed
    /\ speed_in \in AnimInputs
    /\ height_out = NoHeightOut
    /\ NoOther

\* The times notes and frames ask for: the breakpoints, the middle of every
\* interval, a time before the first breakpoint and one after the last.
SampleTimes ==
    LET P == height_out.pts
        n == Len(P)
    IN  {RZero}
        \cup {P[i] : i \in 1..n}
        \cup {RDiv(RAdd(P[i], P[i + 1]), RInt(2)) : i \in 1..(n - 1)}
        \cup (IF n = 0 THEN {} ELSE {RSub(P[1], ROne), RAdd(P[n], ROne)})

\* The time the curves of the chain were last set to.
LastTime(curves) == IF curves = <<>> THEN RZero ELSE curves[1].time

\* The chained speed curve as parse_speed_events holds it.
SpeedCurves ==
    IF anim.which = "speed" THEN anim.curves
    ELSE [a \in 1..Len(height_out.anis) |-> AnimNew(height_out.anis[a])]

\* sani.set_time(t); [sani.set_previous();] sani.now()
SpeedSetTime(t, previous) ==
    /\ op \in {"parse_speed_events", "speed_set_time"}
    /\ speed_in.layers # <<>>
    /\ LET moved == ChainSetTime(SpeedCurves, t)
           curves == IF previous THEN ChainSetPrevious(moved) ELSE moved
       IN  anim' = [which |-> "speed", curves |-> curves, t |-> t,
                    back |-> RLt(t, LastTime(SpeedCurves)),
                    limit |-> IF previous THEN "left" ELSE "right",
                    value |-> ChainValue(curves)]
    /\ op' = "speed_set_time"
    /\ UNCHANGED <<cacheVars, bpmVars, speedVars, load, frame>>

\* The height curve of the line, as parse_judge_line got it.
HeightCurves ==
    IF anim.which = "height" THEN anim.curves ELSE <<AnimNew(height_out.kfs)>>

\* self.height.set_time(res.time)
JudgeLineHeight(curves, t) == ChainSetTime(curves, t)

\* height.set_time(t); height.now()
HeightSetTime(t) ==
    /\ op \in {"parse_speed_events", "speed_set_time", "height_set_time"}
    /\ LET curves == JudgeLineHeight(HeightCurves, t)
       IN  anim' = [which |-> "height", curves |-> curves, t |-> t,
                    back |-> RLt(t, LastTime(HeightCurves)),
                    limit |-> "right",
                    value |-> ChainValue(curves)]
    /\ op' = "height_set_time"
    /\ UNCHANGED <<cacheVars, bpmVars, speedVars, load, frame>>

NextAnim ==
    \/ ParseSpeedEvents
    \/ \E t \in PtsSet(height_out.pts) : \E previous \in BOOLEAN : SpeedSetTime(t, previous)
    \/ \E t \in SampleTimes : HeightSetTime(t)

SpecAnim == InitAnim /\ [][NextAnim]_vars

(***************************************************************************)
(* Claims about curve evaluation.                                          *)
(***************************************************************************)
\* An AnimationCurve: keyframes in non-decreasing time order.
IsCurve(kfs) == \A k \in 1..(Len(kfs) - 1) : RLe(kfs[k].time, kfs[k + 1].time)

IsNumber(a) == a[2] > 0

\* The layers of the line as parsed, before unit scaling.
UnscaledLayers == SpeedAnis(SpeedBpm, speed_in.layers)

\* The sum of the layers, each evaluated on its own.
SumOfLayers(layers, t, limit) ==
    IF Len(layers) = 1 THEN Evaluate(layers[1], t, limit)
    ELSE RAdd(Evaluate(layers[1], t, limit), Evaluate(layers[2], t, limit))

InsideRange(kfs, t) == RLe(kfs[1].time, t) /\ RLe(t, kfs[Len(kfs)].time)

IsKeyframeTime(kfs, t) == \E k \in 1..Len(kfs) : kfs[k].time = t

\* C11: the chained curve evaluated at t is the sum of the chained curves
\* each evaluated at t (for the speed curve: SPEED_RATIO times the sum of
\* the layers as parsed), also at a keyframe time of only some of them and
\* outside the keyframe range of some of them.
C11_ChainIsTheSum ==
    anim.which = "speed" =>
        /\ anim.value = SumOfLayers(height_out.anis, anim.t, anim.limit)
        /\ anim.value = RMul(SPEED_RATIO, SumOfLayers(UnscaledLayers, anim.t, anim.limit))

\* C11 witness: two layers, evaluated at a keyframe time of the first that
\* lies outside the keyframe range of the second.
C11_Witness ==
    /\ anim.which = "speed"
    /\ Len(UnscaledLayers) = 2
    /\ IsKeyframeTime(UnscaledLayers[1], anim.t)
    /\ ~IsKeyframeTime(UnscaledLayers[2], anim.t)
    /\ ~InsideRange(UnscaledLayers[2], anim.t)
    /\ anim.value # AnimNow(anim.curves[1])

HeightKfs == anim.curves[1].kfs

\* The value asked for is there, and outside the keyframe range it is the
\* value of the nearest end.
ClampsOutsideTheRange ==
    /\ IsNumber(anim.value)
    /\ HeightKfs = <<>> => anim.value = RZero
    /\ (HeightKfs # <<>> /\ RLt(anim.t, HeightKfs[1].time)) =>
          anim.value = HeightKfs[1].value
    /\ (HeightKfs # <<>> /\ RLt(HeightKfs[Len(HeightKfs)].time, anim.t)) =>
          anim.value = HeightKfs[Len(HeightKfs)].value

\* C12: evaluating the height curve of a parsed line always gives a value;
\* before the first keyframe it is the first keyframe's value and after
\* the last keyframe it is the last keyframe's value.
C12_EvaluationClampsOutsideTheRange == anim.which = "height" => ClampsOutsideTheRange

\* The same statement for the height curves whose keyframes are in time
\* order.
EvaluationClampsForCurves ==
    (anim.which = "height" /\ IsCurve(HeightKfs)) => ClampsOutsideTheRange

\* The cursor the bracket search gives for a limit.
BracketCursor(kfs, t, limit) ==
    LET found == BracketSearch(kfs, t)
    IN  IF limit = "left" /\ found > 1 /\ kfs[found].time = t THEN found - 1 ELSE found

NoteTypeCodes == 0..5

CustomSound == "custom.ogg"

\* RPENote: every type code without a hit sound, and a known and an
\* unknown code with a built-in and with a custom hit sound.
RPENotes ==
    [kind : NoteTypeCodes, hitsound : {"none"}]
    \cup [kind : {0, 1}, hitsound : {"tap.mp3", CustomSound}]

\* fs.load_file and AudioClip::new: the file is missing, loads into a
\* clip, or loads but is no audio clip.
FsStates == {"missing", "valid", "invalid"}

\* A kind match that takes an unknown code for a Click.
NoteKindOfDefaulting(code) ==
    CASE code = 2 -> "Hold"
      [] code = 3 -> "Flick"
      [] code = 4 -> "Drag"
      [] OTHER -> "Click"

\* The match on note.kind.
NoteKindOf(code) ==
    CASE code = 1 -> "Click"
      [] code = 2 -> "Hold"
      [] code = 3 -> "Flick"
      [] code = 4 -> "Drag"
      [] OTHER -> "unknown-note-type"

\* A lookup that falls back to the kind's own sound when the file does
\* not load.
CustomHitSoundDefaulting(s, kind, hitsounds, fs) ==
    IF s \in hitsounds \/ fs = "valid"
    THEN [ok |-> TRUE, hitsound |-> <<"Custom", s>>, hitsounds |-> hitsounds \cup {s}]
    ELSE [ok |-> TRUE, hitsound |-> <<kind>>, hitsounds |-> hitsounds]

\* The custom branch of the match on note.hitsound.
CustomHitSound(s, kind, hitsounds, fs) ==
    IF s \in hitsounds
    THEN [ok |-> TRUE, hitsound |-> <<"Custom", s>>, hitsounds |-> hitsounds]
    ELSE IF fs = "valid"
    THEN [ok |-> TRUE, hitsound |-> <<"Custom", s>>, hitsounds |-> hitsounds \cup {s}]
    ELSE IF fs = "invalid"
    THEN [ok |-> FALSE, cause |-> "audio-clip"]
    ELSE [ok |-> FALSE, cause |-> "hitsound-missing"]

\* The match on note.hitsound.
HitSoundOf(s, kind, hitsounds, fs) ==
    IF s = "none" THEN [ok |-> TRUE, hitsound |-> <<kind>>, hitsounds |-> hitsounds]
    ELSE IF s = "flick.mp3" THEN [ok |-> TRUE, hitsound |-> <<"Flick">>, hitsounds |-> hitsounds]
    ELSE IF s = "tap.mp3" THEN [ok |-> TRUE, hitsound |-> <<"Click">>, hitsounds |-> hitsounds]
    ELSE IF s = "drag.mp3" THEN [ok |-> TRUE, hitsound |-> <<"Drag">>, hitsounds |-> hitsounds]
    ELSE CustomHitSound(s, kind, hitsounds, fs)

\* parse_notes: the notes in file order, stopping at the first failure.
RECURSIVE ParseNotes(_, _, _, _)
ParseNotes(rpe, notes, hitsounds, fs) ==
    IF rpe = <<>> THEN [ok |-> TRUE, notes |-> notes, hitsounds |-> hitsounds]
    ELSE LET note == Head(rpe)
             kind == NoteKindOf(note.kind)
             sound == HitSoundOf(note.hitsound, kind, hitsounds, fs)
         IN  IF kind = "unknown-note-type" THEN [ok |-> FALSE, cause |-> kind]
             ELSE IF ~sound.ok THEN [ok |-> FALSE, cause |-> sound.cause]
             ELSE ParseNotes(Tail(rpe),
                             Append(notes, [kind |-> kind, hitsound |-> sound.hitsound]),
                             sound.hitsounds, fs)

\* parse_judge_line: the line's name and its parsed notes; the events of a
\* line never fail to parse.
ParseJudgeLine(rpe, hitsounds, fs) ==
    LET parsed_notes == ParseNotes(rpe.notes, <<>>, hitsounds, fs)
    IN  IF ~parsed_notes.ok THEN parsed_notes
        ELSE [ok |-> TRUE, line |-> [name |-> rpe.name, notes |-> parsed_notes.notes],
              hitsounds |-> parsed_notes.hitsounds]

\* The loop of parse_rpe over judge_line_list: a failure is returned with
\* the line's index and name as its context.
RECURSIVE ParseJudgeLines(_, _, _, _, _)
ParseJudgeLines(rpe, id, hitsounds, fs, done) ==
    IF id >= Len(rpe) THEN [kind |-> "chart", lines |-> done]
    ELSE LET line == ParseJudgeLine(rpe[id + 1], hitsounds, fs)
         IN  IF ~line.ok
             THEN [kind |-> "error", jlid |-> id, name |-> rpe[id + 1].name,
                   cause |-> line.cause]
             ELSE ParseJudgeLines(rpe, id + 1, line.hitsounds, fs,
                                  Append(done, line.line))

\* parse_rpe: the tempo table is built from bpm_list as it is, the hit
\* sounds start empty, and the chart carries the table and the lines.
ParseRpeOf(rpe, fs) ==
    LET r == rpe.bpm_list
        result == ParseJudgeLines(rpe.judge_line_list, 0, {}, fs, <<>>)
    IN  IF result.kind = "error" THEN result
        ELSE [kind |-> "chart", lines |-> result.lines, bpm_list |-> r]

RECURSIVE NoteSeqs(_)
NoteSeqs(n) ==
    IF n = 0 THEN {<<>>}
    ELSE NoteSeqs(n - 1) \cup {Append(q, x) : q \in {w \in NoteSeqs(n - 1) : Len(w) = n - 1},
                                              x \in RPENotes}

LineName(i) == IF i = 1 THEN "first" ELSE IF i = 2 THEN "second" ELSE "later"

RECURSIVE RPENoteCount(_)
RPENoteCount(ls) == IF ls = <<>> THEN 0 ELSE Len(Head(ls).notes) + RPENoteCount(Tail(ls))

\* judge_line_list: at most NumLines lines holding at most MaxNotes notes
\* between them.
RECURSIVE RPEJudgeLines(_)
RPEJudgeLines(n) ==
    IF n = 0 THEN {<<>>}
    ELSE RPEJudgeLines(n - 1)
         \cup UNION {{Append(ls, [name |-> LineName(n), notes |-> q]) :
                        q \in NoteSeqs(MaxNotes - RPENoteCount(ls))} :
                      ls \in {w \in RPEJudgeLines(n - 1) : Len(w) = n - 1}}

\* BPMList: empty, or one breakpoint at beat 0.
RPEBpmTables == {<<>>, <<[start_time |-> <<0, 0, 1>>, bpm |-> 120]>>}

RPECharts ==
    [bpm_list : RPEBpmTables,
     judge_line_list : RPEJudgeLines(NumLines)]

InitParse ==
    /\ lines = <<>>
    /\ origin = <<>>
    /\ time = 0
    /\ op = "new"
    /\ bpm = NoBpm
    /\ parsed = NoParsed
    /\ speed_in = NoSpeedIn
    /\ height_out = NoHeightOut
    /\ anim = NoAnim
    /\ frame = NoFrame
    /\ \E rpe \in RPECharts : \E fs \in FsStates :
         load = [rpe |-> rpe, fs |-> fs, result |-> [kind |-> "none"]]

ParseRpe ==
    /\ op = "new"
    /\ op' = "parse_rpe"
    /\ load' = [load EXCEPT !.result = ParseRpeOf(load.rpe, load.fs)]
    /\ UNCHANGED <<cacheVars, bpmVars, speedVars, anim, frame>>

NextParse == ParseRpe

SpecParse == InitParse /\ [][NextParse]_vars

(***************************************************************************)
(* Claims about parsing.                                                   *)
(***************************************************************************)
HasParsed == op = "parse_rpe"

InputLines == load.rpe.judge_line_list

KnownCodes == 1..4

KindOfCode == [c \in KnownCodes |-> <<"Click", "Hold", "Flick", "Drag">>[c]]

BuiltInSounds == {"tap.mp3", "flick.mp3", "drag.mp3"}

HasUnknownCode(i) ==
    \E j \in 1..Len(InputLines[i].notes) : InputLines[i].notes[j].kind \notin KnownCodes

NamesCustomSound(i) ==
    \E j \in 1..Len(InputLines[i].notes) :
        InputLines[i].notes[j].hitsound \notin BuiltInSounds \cup {"none"}

UnknownCodeLines == {i \in 1..Len(InputLines) : HasUnknownCode(i)}

CustomSoundLines == {i \in 1..Len(InputLines) : NamesCustomSound(i)}

FileLoads == load.fs = "valid"

First(S) == CHOOSE i \in S : \A k \in S : i <= k

\* The error names a line of the input by its index and its name.
ErrorIsLocated ==
    /\ load.result.kind = "error"
    /\ load.result.jlid \in 0..(Len(InputLines) - 1)
    /\ load.result.name = InputLines[load.result.jlid + 1].name

\* The chart has the input's lines and notes, one for one.
ChartMatchesInput ==
    /\ load.result.kind = "chart"
    /\ Len(load.result.lines) = Len(InputLines)
    /\ \A i \in 1..Len(InputLines) :
         Len(load.result.lines[i].notes) = Len(InputLines[i].notes)

\* C14: codes 1, 2, 3, 4 become Click, Hold, Flick, Drag; a note with any
\* other code makes parse_rpe return an error that names a judge line by
\* index and name, the line of the note when nothing fails before it, and
\* no chart is produced.
C14_UnknownNoteTypeIsAnError ==
    HasParsed =>
        /\ UnknownCodeLines # {} =>
             /\ ErrorIsLocated
             /\ load.result.jlid + 1 <= First(UnknownCodeLines)
             /\ (CustomSoundLines = {} \/ FileLoads) =>
                  /\ load.result.jlid + 1 = First(UnknownCodeLines)
                  /\ load.result.cause = "unknown-note-type"
        /\ UnknownCodeLines = {} /\ (CustomSoundLines = {} \/ FileLoads) => ChartMatchesInput
        /\ load.result.kind = "chart" =>
             /\ ChartMatchesInput
             /\ \A i \in 1..Len(InputLines) : \A j \in 1..Len(InputLines[i].notes) :
                  /\ InputLines[i].notes[j].kind \in KnownCodes
                  /\ load.result.lines[i].notes[j].kind = KindOfCode[InputLines[i].notes[j].kind]

\* An unknown code in the second line, after a line whose Hold parsed.
C14_Witness ==
    /\ HasParsed
    /\ Len(InputLines) = 2
    /\ InputLines[1].notes # <<>>
    /\ InputLines[1].notes[1].kind = 2
    /\ HasUnknownCode(2)
    /\ load.result.kind = "error"
    /\ load.result.jlid = 1
    /\ load.result.name = LineName(2)
    /\ load.result.cause = "unknown-note-type"

\* C15: a note naming a custom hit sound whose file does not load makes the
\* parse fail with an error, located at a line, and no chart is produced;
\* in a chart every custom name is a custom hit sound, never a default.
C15_MissingHitSoundIsAnError ==
    HasParsed =>
        /\ CustomSoundLines # {} /\ ~FileLoads =>
             /\ ErrorIsLocated
             /\ load.result.jlid + 1 <= First(CustomSoundLines)
             /\ UnknownCodeLines = {} =>
                  /\ load.result.jlid + 1 = First(CustomSoundLines)
                  /\ load.result.cause =
                       IF load.fs = "missing" THEN "hitsound-missing" ELSE "audio-clip"
        /\ load.result.kind = "chart" =>
             /\ ChartMatchesInput
             /\ \A i \in 1..Len(InputLines) : \A j \in 1..Len(InputLines[i].notes) :
                  LET named == InputLines[i].notes[j].hitsound
                  IN  named \notin BuiltInSounds \cup {"none"} =>
                        /\ FileLoads
                        /\ load.result.lines[i].notes[j].hitsound = <<"Custom", named>>

\* A missing file named in the second line, after a line whose note parsed.
C15_Witness ==
    /\ HasParsed
    /\ Len(InputLines) = 2
    /\ InputLines[1].notes # <<>>
    /\ UnknownCodeLines = {}
    /\ CustomSoundLines = {2}
    /\ load.fs = "missing"
    /\ load.result.kind = "error"
    /\ load.result.jlid = 1
    /\ load.result.cause = "hitsound-missing"

\* C16: a chart whose tempo table is empty is rejected with an error and
\* never yields a chart.
C16_EmptyTempoTableIsAnError ==
    HasParsed /\ load.rpe.bpm_list = <<>> => load.result.kind = "error"

(***************************************************************************)
(* The frame loop over a chart: Chart::new, Chart::update, Chart::render.  *)
(* A line is its z_index, its attach_ui (0 for None) and its parent (0 for *)
(* None); line it of the source is position it + 1 here.  The calls made   *)
(* in a frame are recorded in the order they are made.                     *)
(***************************************************************************)
\* The length of Chart.attach_ui.
UIElements == 7

ZIndices == {0, 1}

AttachPoints == {0, 1, UIElements}

FrameLines(n) ==
    [1..n -> [z_index : ZIndices, attach_ui : AttachPoints, parent : 0..n]]

\* A construction that keeps the declared order.
ChartOrderDeclared(ls) ==
    LET F[n \in 0..Len(ls)] ==
            IF n = 0 THEN <<>>
            ELSE IF ls[n].attach_ui # 0 THEN F[n - 1] ELSE Append(F[n - 1], n)
    IN  F[Len(ls)]

\* order of Chart::new: the lines without attach_ui, sorted by the key
\* (z_index, it).
ChartOrder(ls) ==
    LET Before(a, b) ==
            \/ ls[a].z_index < ls[b].z_index
            \/ ls[a].z_index = ls[b].z_index /\ a < b
        Insert(q, it) ==
            LET k == Cardinality({j \in 1..Len(q) : Before(q[j], it)})
            IN  SubSeq(q, 1, k) \o <<it>> \o SubSeq(q, k + 1, Len(q))
        F[n \in 0..Len(ls)] ==
            IF n = 0 THEN <<>>
            ELSE IF ls[n].attach_ui # 0 THEN F[n - 1] ELSE Insert(F[n - 1], n)
    IN  F[Len(ls)]

\* attach_ui of Chart::new: the filter runs over the lines in declared
\* order and a later line overwrites the slot of an earlier one.
ChartAttachUi(ls) ==
    [e \in 1..UIElements |->
        LET bound == {it \in 1..Len(ls) : ls[it].attach_ui = e}
        IN  IF bound = {} THEN 0 ELSE CHOOSE it \in bound : \A k \in bound : k <= it]

ChartNew(ls) ==
    [lines |-> ls, order |-> ChartOrder(ls), attach_ui |-> ChartAttachUi(ls), time |-> 0,
     object_time |-> [it \in 1..Len(ls) |-> 0],
     transform |-> [it \in 1..Len(ls) |-> <<0, 0>>],
     calls |-> <<>>]

Call(name, it) == [call |-> name, line |-> it]

CallsOver(name, n) == [it \in 1..n |-> Call(name, it)]

\* An update that does all three steps line by line.
ChartUpdateCallsPerLine(n) ==
    LET F[k \in 0..n] ==
            IF k = 0 THEN <<>>
            ELSE F[k - 1] \o <<Call("set_time", k), Call("now_transform", k), Call("update", k)>>
    IN  F[n]

\* The three loops of Chart::update.
ChartUpdateCalls(n) ==
    CallsOver("set_time", n) \o CallsOver("now_transform", n) \o CallsOver("update", n)

\* now_transform(res, lines): a line's transform is read off its own curves
\* and, for a line with a parent, the parent's.
NowTransform(c, it) ==
    LET parent == c.lines[it].parent
    IN  <<c.object_time[it], c.object_time[IF parent = 0 THEN it ELSE parent]>>

\* One call of Chart::update: set_time moves the line's curves to res.time,
\* now_transform fills trs, and line.update takes its entry of trs.
RECURSIVE RunUpdate(_, _, _, _)
RunUpdate(c, trs, t, calls) ==
    IF calls = <<>> THEN c
    ELSE LET x == Head(calls)
             it == x.line
         IN  CASE x.call = "set_time" ->
                    RunUpdate([c EXCEPT !.object_time[it] = t], trs, t, Tail(calls))
               [] x.call = "now_transform" ->
                    RunUpdate(c, [trs EXCEPT ![it] = NowTransform(c, it)], t, Tail(calls))
               [] OTHER ->
                    RunUpdate([c EXCEPT !.transform[it] = trs[it]], trs, t, Tail(calls))

\* Chart::update at res.time = t.
ChartUpdateOf(c, t) ==
    LET calls == ChartUpdateCalls(Len(c.lines))
        done == RunUpdate(c, c.transform, t, calls)
    IN  [done EXCEPT !.time = t, !.calls = calls]

\* The loop of Chart::render over order.
ChartRenderCalls(c) == [k \in 1..Len(c.order) |-> Call("render", c.order[k])]

\* The slots whose line with_element finds.
RECURSIVE ElementCalls(_, _)
ElementCalls(c, e) ==
    IF e > UIElements THEN <<>>
    ELSE (IF c.attach_ui[e] = 0 THEN <<>> ELSE <<Call("with_element", c.attach_ui[e])>>)
         \o ElementCalls(c, e + 1)

\* The scene's render: the chart, then the UI elements, each drawn through
\* with_element, slot by slot.
SceneRenderCalls(c) == ChartRenderCalls(c) \o ElementCalls(c, 1)

InitFrame ==
    /\ lines = <<>>
    /\ origin = <<>>
    /\ time = 0
    /\ op = "new"
    /\ bpm = NoBpm
    /\ parsed = NoParsed
    /\ speed_in = NoSpeedIn
    /\ height_out = NoHeightOut
    /\ anim = NoAnim
    /\ load = NoLoad
    /\ \E n \in 0..NumLines : \E ls \in FrameLines(n) :
         /\ \A it \in 1..n : ls[it].parent # it
         /\ frame = ChartNew(ls)

\* main.update() of the loop: the scene updates the chart at the frame time.
MainUpdate(t) ==
    /\ op \in {"new", "main_render"}
    /\ op' = "main_update"
    /\ frame' = ChartUpdateOf(frame, t)
    /\ UNCHANGED <<cacheVars, bpmVars, speedVars, anim, load>>

\* main.render() of the loop, after main.update() returned.
MainRender ==
    /\ op = "main_update"
    /\ op' = "main_render"
    /\ frame' = [frame EXCEPT !.calls = frame.calls \o SceneRenderCalls(frame)]
    /\ UNCHANGED <<cacheVars, bpmVars, speedVars, anim, load>>

NextFrame ==
    \/ \E t \in 0..MaxTime : MainUpdate(t)
    \/ MainRender

SpecFrame == InitFrame /\ [][NextFrame]_vars

(***************************************************************************)
(* Claims about the frame loop.                                            *)
(***************************************************************************)
HasRendered == op = "main_render"

LineCount == Len(frame.lines)

IsAttached(it) == frame.lines[it].attach_ui # 0

IsRenderCall(x) == x.call = "render"

IsElementCall(x) == x.call = "with_element"

\* The lines visited by the calls of one kind, in the order of the calls.
Visited(Kind(_)) ==
    LET q == SelectSeq(frame.calls, Kind)
    IN  [k \in 1..Len(q) |-> q[k].line]

Times(q, it) == Cardinality({k \in 1..Len(q) : q[k] = it})

\* C17: the render pass visits every line without an attachment point
\* exactly once, in the order built at construction: ascending z_index,
\* equal z_index in declared order.
C17_RenderVisitsUnattachedLinesInZOrder ==
    HasRendered =>
        LET R == Visited(IsRenderCall)
        IN  /\ \A it \in 1..LineCount : Times(R, it) = IF IsAttached(it) THEN 0 ELSE 1
            /\ \A i, j \in 1..Len(R) :
                 i < j =>
                   \/ frame.lines[R[i]].z_index < frame.lines[R[j]].z_index
                   \/ /\ frame.lines[R[i]].z_index = frame.lines[R[j]].z_index
                      /\ R[i] < R[j]
            /\ R = frame.order

\* Two unattached lines rendered against their declared order.
C17_Witness ==
    /\ HasRendered
    /\ LineCount = 2
    /\ ~IsAttached(1) /\ ~IsAttached(2)
    /\ frame.lines[1].z_index > frame.lines[2].z_index
    /\ Visited(IsRenderCall) = <<2, 1>>

\* C18: after the unattached lines, every line bound to an attachment point
\* is visited, in the order of the attachment slots.
C18_AttachedLinesVisitedBySlot ==
    HasRendered =>
        LET A == Visited(IsElementCall)
        IN  /\ \A it \in 1..LineCount : IsAttached(it) => Times(A, it) = 1
            /\ \A i, j \in 1..Len(A) :
                 i < j => frame.lines[A[i]].attach_ui < frame.lines[A[j]].attach_ui
            /\ \A i, j \in 1..Len(frame.calls) :
                 IsRenderCall(frame.calls[i]) /\ IsElementCall(frame.calls[j]) => i < j

Phase(x) ==
    CASE x.call = "set_time" -> 1
      [] x.call = "now_transform" -> 2
      [] x.call = "update" -> 3
      [] OTHER -> 4

IsSetTimeCall(x) == Phase(x) = 1

IsTransformCall(x) == Phase(x) = 2

IsUpdateCall(x) == Phase(x) = 3

Declared == [it \in 1..LineCount |-> it]

\* C19: in a frame every update call comes before every render call; in the
\* update every line's curves are set to the frame time before any
\* transform is computed and every transform is computed before any line's
\* notes are updated, so each line's transform is read off curves at the
\* frame time, its parent's included; the lines are updated in declared
\* order.
C19_UpdateCompletesBeforeRender ==
    op \in {"main_update", "main_render"} =>
        /\ \A i, j \in 1..Len(frame.calls) :
             i < j => Phase(frame.calls[i]) <= Phase(frame.calls[j])
        /\ Visited(IsSetTimeCall) = Declared
        /\ Visited(IsTransformCall) = Declared
        /\ Visited(IsUpdateCall) = Declared
        /\ \A it \in 1..LineCount :
             /\ frame.object_time[it] = frame.time
             /\ frame.transform[it] = <<frame.time, frame.time>>

\* A rendered frame at a later time with a line whose parent is declared
\* after it.
C19_Witness ==
    /\ HasRendered
    /\ frame.time = MaxTime
    /\ LineCount = 2
    /\ frame.lines[1].parent = 2
    /\ Visited(IsRenderCall) # <<>>
    /\ frame.transform[1] = <<MaxTime, MaxTime>>

(***************************************************************************)
(* Claims about a repeated frame time.                                     *)
(***************************************************************************)
\* C20: after an update, a second update at the same frame time, with no
\* note judged in between, completes and leaves update_order, above_indices
\* and below_indices of every line as the first update left them.
C20_RepeatedUpdateIsIdempotent ==
    op = "update" =>
        \A l \in 1..Len(lines) :
            LET again == JudgeLineUpdate(lines[l], time)
            IN  /\ again.cache.update_order = lines[l].cache.update_order
                /\ again.cache.above_indices = lines[l].cache.above_indices
                /\ again.cache.below_indices = lines[l].cache.below_indices

\* An update that dropped a judged note and kept a judged Hold still held,
\* with a pointer left in a view.
C20_Witness ==
    /\ op = "update"
    /\ \E l \in 1..Len(lines) :
         /\ lines[l].cache.update_order # <<>>
         /\ Len(lines[l].cache.update_order) < Len(lines[l].notes)
         /\ \E j \in 1..Len(lines[l].cache.update_order) :
              LET note == At(lines[l].notes, lines[l].cache.update_order[j])
              IN  note.kind = "Hold" /\ note.judge = "Judged" /\ time < note.end_time
         /\ lines[l].cache.above_indices \o lines[l].cache.below_indices # <<>>

RenderSpeeds == {-1, 2}

\* <<kind, scheduled time, y offset>>: a note at either time, one pushed up
\* by its y offset, and a Hold.
RenderPlaces == {<<"Click", 1, 0>>, <<"Click", 2, 0>>, <<"Click", 1, 1>>, <<"Hold", 1, 0>>}

RenderNote(place, above, speed) ==
    [MkNote(place[1], above, speed, place[2]) EXCEPT !.y_offset = place[3]]

RenderNoteShapes ==
    {RenderNote(place, above, speed) :
        place \in RenderPlaces, above \in BOOLEAN, speed \in RenderSpeeds}

\* The corners of the screen in the line's frame: p[..].y.min and .max.
HeightBelow == -1
HeightAbove == 2

AspectRatios == {1, 2}

\* height.set_time(time); height.now() for the line's unit-speed curve.
HeightAt(t) == t

\* line_height of the scan: the line's height at the frame time, and for a
\* Hold that has not ended the height at the earlier of the frame time and
\* the Hold's time.
LineHeight(note, t) ==
    IF note.kind = "Hold"
    THEN HeightAt(IF t < note.end_time THEN (IF t < note.time THEN t ELSE note.time) ELSE t)
    ELSE HeightAt(t)

\* (note.height - line_height + translation.1.now()) / aspect_ratio * speed
NoteHeight(note, t, aspect_ratio) ==
    RMul(RDiv(RInt(note.height - LineHeight(note, t) + note.y_offset), RInt(aspect_ratio)),
         RInt(note.speed))

\* The body of the inner loop for the note at index: what happens to it.
ScanOutcome(note, above, t, cfg) ==
    LET note_height == NoteHeight(note, t, cfg.aspect_ratio)
        low == IF above THEN HeightBelow ELSE -HeightAbove
        high == IF above THEN HeightAbove ELSE -HeightBelow
    IN  IF note.judge = "Judged" /\ note.kind # "Hold" THEN "judged"
        ELSE IF cfg.aggressive /\ RLt(note_height, RInt(low)) THEN "below"
        ELSE IF cfg.aggressive /\ RLt(RInt(high), note_height) THEN "above"
        ELSE "render"

\* for note in self.notes[*index..].iter(): the notes looked at from the
\* pointer on, each with its outcome; the scan ends at the end of the run
\* or at the note that breaks it.
RECURSIVE ScanRun(_, _, _, _, _, _)
ScanRun(notes, index, above, speed, t, cfg) ==
    IF ~InRange(notes, index) THEN <<>>
    ELSE IF (above /\ ~At(notes, index).above) \/ speed # At(notes, index).speed THEN <<>>
    ELSE LET outcome == ScanOutcome(At(notes, index), above, t, cfg)
             visit == [index |-> index, outcome |-> outcome]
         IN  IF outcome = "above" THEN <<visit>>
             ELSE <<visit>> \o ScanRun(notes, index + 1, above, speed, t, cfg)

\* The two loops of JudgeLine::render over above_indices and below_indices.
JudgeLineRender(line, t, cfg) ==
    [k \in 1..Len(line.cache.above_indices) |->
        LET index == line.cache.above_indices[k]
        IN  [above |-> TRUE, index |-> index,
             visits |-> ScanRun(line.notes, index, TRUE, At(line.notes, index).speed, t, cfg)]]
    \o
    [k \in 1..Len(line.cache.below_indices) |->
        LET index == line.cache.below_indices[k]
        IN  [above |-> FALSE, index |-> index,
             visits |-> ScanRun(line.notes, index, FALSE, At(line.notes, index).speed, t, cfg)]]

NoRender == [cfg |-> [aggressive |-> FALSE, aspect_ratio |-> 1], scans |-> <<>>]

InitRender ==
    /\ lines = <<>>
    /\ origin \in SeqsUpTo(RenderNoteShapes, MaxNotes)
    /\ time = 0
    /\ op = "new"
    /\ bpm = NoBpm
    /\ parsed = NoParsed
    /\ speed_in = NoSpeedIn
    /\ height_out = NoHeightOut
    /\ anim = NoAnim
    /\ load = NoLoad
    /\ frame = NoRender

\* JudgeLineCache::new on the parsed notes.
JudgeLineCacheNew ==
    /\ op = "new"
    /\ lines' = <<CacheNew(origin)>>
    /\ op' = "cache_new"
    /\ UNCHANGED <<origin, time, bpmVars, speedVars, otherVars>>

\* The judging collaborator, before or after the frame's update.
RenderJudge(i) ==
    /\ op \in {"cache_new", "judge", "update"}
    /\ InRange(lines[1].notes, i)
    /\ Judge(1, i, FALSE)

\* The frame's Chart::update.
RenderUpdate(t) ==
    /\ op \in {"cache_new", "judge"}
    /\ ChartUpdate(t)

\* The frame's JudgeLine::render under a configuration.
LineRender(aggressive, aspect_ratio) ==
    /\ op \in {"update", "judge"}
    /\ LET cfg == [aggressive |-> aggressive, aspect_ratio |-> aspect_ratio]
       IN  frame' = [cfg |-> cfg, scans |-> JudgeLineRender(lines[1], time, cfg)]
    /\ op' = "line_render"
    /\ UNCHANGED <<cacheVars, bpmVars, speedVars, anim, load>>

NextRender ==
    \/ JudgeLineCacheNew
    \/ \E i \in 0..(MaxNotes - 1) : RenderJudge(i)
    \/ \E t \in 0..MaxTime : RenderUpdate(t)
    \/ \E aggressive \in BOOLEAN : \E aspect_ratio \in AspectRatios :
          LineRender(aggressive, aspect_ratio)

SpecRender == InitRender /\ [][NextRender]_vars

(***************************************************************************)
(* Claims about the order of a line's notes and the render scan.           *)
(***************************************************************************)
HasCache == lines # <<>>

CachedNotes == lines[1].notes

SameRun(a, b) == a.above = b.above /\ a.speed = b.speed

\* C22: after JudgeLineCache::new every above-side note precedes every
\* below-side note, within a side the speeds do not decrease, and within a
\* run of one side and speed the stored heights do not decrease.
C22_NotesOrderedBySideSpeedHeight ==
    HasCache =>
        \A i, j \in 1..Len(CachedNotes) :
            i < j =>
                LET a == CachedNotes[i]
                    b == CachedNotes[j]
                IN  /\ b.above => a.above
                    /\ a.above = b.above => a.speed <= b.speed
                    /\ SameRun(a, b) => a.height <= b.height

\* What the sort gives: the same notes, with side and speed in that order
\* and, within a run, height + y offset * speed not decreasing.
NotesOrderedBySortKey ==
    HasCache =>
        /\ Len(CachedNotes) = Len(origin)
        /\ \A n \in RenderNoteShapes :
             Cardinality({i \in 1..Len(origin) : origin[i] = n})
               = Cardinality({i \in 1..Len(CachedNotes) : StaticFields(CachedNotes[i]) = StaticFields(n)})
        /\ \A i, j \in 1..Len(CachedNotes) :
             i < j =>
                LET a == CachedNotes[i]
                    b == CachedNotes[j]
                IN  /\ b.above => a.above
                    /\ a.above = b.above => a.speed <= b.speed
                    /\ SameRun(a, b) =>
                         a.height + a.y_offset * a.speed <= b.height + b.y_offset * b.speed

(***************************************************************************)
(* Claims about the keyframes of the displacement curve.                   *)
(***************************************************************************)
LastKeyframe == height_out.kfs[Len(height_out.kfs)]

\* The position of the chart end among the final breakpoints.
ChartEndPoint == CHOOSE i \in 1..Len(height_out.pts) : height_out.pts[i] = speed_in.max_time

\* C23: the displacement curve has its keyframes in non-decreasing time
\* order, its last keyframe is at the chart end time, and that keyframe
\* holds the displacement accumulated up to the chart end time, also when a
\* speed event ends after the chart end.
C23_HeightCurveIsOrdered ==
    (HasIntegrated /\ height_out.kfs # <<>>) =>
        /\ IsCurve(height_out.kfs)
        /\ LastKeyframe.time = speed_in.max_time
        /\ LastKeyframe.value = RunningTotal(ChartEndPoint)

\* The same statement for the lines whose speed events all end by the chart
\* end.
HeightCurveIsOrderedUntilChartEnd ==
    (HasIntegrated /\ EndsByChartEnd) => C23_HeightCurveIsOrdered

\* The interpolation the speeds s (start) and e (end) of an interval ask
\* for: <<kind, lower end, upper end>> of the part of the easing function
\* that is walked.
Linear == 2
EaseIn == 6
EaseOut == 7

InterpolationFor(s, e) ==
    IF RLt(RAbs(RSub(s, e)), EPS) THEN <<Linear, RZero, ROne>>
    ELSE IF RLt(RAbs(e), RAbs(s)) THEN <<EaseOut, RZero, RSub(ROne, RDiv(e, s))>>
    ELSE <<EaseIn, RDiv(s, e), ROne>>

InterpolationOf(kf) == <<kf.tween.id, kf.tween.lo, kf.tween.hi>>

\* C24: the keyframe of every interval of the final breakpoints is linear
\* when the interval's start and end speeds differ by less than epsilon, an
\* ease-out walked over [0, 1 - end/start] when the start speed is the
\* greater in absolute value, and otherwise an ease-in walked over
\* [start/end, 1].
C24_InterpolationFollowsTheSpeeds ==
    HasIntegrated =>
        \A i \in 1..(Len(height_out.pts) - 1) :
            LET P == height_out.pts
                s == InputSpeed(P[i], "right")
                e == InputSpeed(P[i + 1], "left")
                kf == height_out.kfs[i]
            IN  /\ kf.time = P[i]
                /\ InterpolationOf(kf) = InterpolationFor(s, e)
                /\ kf.tween.id = Linear <=> s = e
                /\ kf.tween.id = EaseOut => (kf.tween.kind = "clamped" /\ RLt(RAbs(e), RAbs(s)))
                /\ kf.tween.id = EaseIn => (kf.tween.kind = "clamped" /\ RLe(RAbs(s), RAbs(e)))

\* A line with an interval slowing down to a speed that is not 0 and an
\* interval speeding up.
C24_Witness ==
    /\ HasIntegrated
    /\ \E i \in 1..(Len(height_out.pts) - 1) :
         /\ height_out.kfs[i].tween.id = EaseOut
         /\ RLt(height_out.kfs[i].tween.hi, ROne)
    /\ \E i \in 1..(Len(height_out.pts) - 1) : height_out.kfs[i].tween.id = EaseIn

(***************************************************************************)
(* Claims about the render scan.                                           *)
(***************************************************************************)
HasScanned == op = "line_render"

Scans == frame.scans

\* The note is farther from the line than the far edge of the screen.
BeyondVisible(note, above) ==
    RLt(RInt(IF above THEN HeightAbove ELSE -HeightBelow),
        NoteHeight(note, time, frame.cfg.aspect_ratio))

\* The note is behind the near edge of the screen.
BehindVisible(note, above) ==
    RLt(NoteHeight(note, time, frame.cfg.aspect_ratio),
        RInt(IF above THEN HeightBelow ELSE -HeightAbove))

IsSkippedAsJudged(note) == note.judge = "Judged" /\ note.kind # "Hold"

\* The scan of one run starts at its pointer, walks forward note by note
\* and stays in the pointer's run.
ScanStaysInRun(scan) ==
    /\ scan.visits # <<>>
    /\ \A k \in 1..Len(scan.visits) :
         /\ scan.visits[k].index = scan.index + k - 1
         /\ InRange(CachedNotes, scan.visits[k].index)
         /\ SameRun(At(CachedNotes, scan.visits[k].index), At(CachedNotes, scan.index))
         /\ At(CachedNotes, scan.index).above = scan.above

\* The scan ends at the first note, not skipped as judged, that is beyond
\* the visible height.
ScanStopsBeyondVisible(scan) ==
    \A k \in 1..Len(scan.visits) :
        LET note == At(CachedNotes, scan.visits[k].index)
        IN  (~IsSkippedAsJudged(note) /\ ~BehindVisible(note, scan.above)
                /\ BeyondVisible(note, scan.above))
              => (k = Len(scan.visits) /\ scan.visits[k].outcome # "render")

\* C25: when a line is rendered the scan of each run starts at the run's
\* pointer, moves forward only, never leaves the run, and stops at the
\* first note beyond the visible height, so no later note is visited.
C25_ScanStopsAtTheFirstOffscreenNote ==
    HasScanned =>
        \A r \in 1..Len(Scans) : ScanStaysInRun(Scans[r]) /\ ScanStopsBeyondVisible(Scans[r])

\* The same statement for a render with aggressive culling switched on.
ScanStopsWhenAggressive ==
    (HasScanned /\ frame.cfg.aggressive) => C25_ScanStopsAtTheFirstOffscreenNote

\* Without the stop: start, direction and run of every scan.
ScanStaysInRunAlways ==
    HasScanned => \A r \in 1..Len(Scans) : ScanStaysInRun(Scans[r])

IsVisible(note, above) == ~BehindVisible(note, above) /\ ~BeyondVisible(note, above)

\* The indices of the run of the scan's pointer, from the pointer on.
RunFromPointer(scan) ==
    {i \in scan.index..(Len(CachedNotes) - 1) :
        \A j \in scan.index..i : SameRun(At(CachedNotes, j), At(CachedNotes, scan.index))}

Rendered(scan) ==
    {scan.visits[k].index : k \in {v \in 1..Len(scan.visits) : scan.visits[v].outcome = "render"}}

\* Culling leaves out no note of the scan's run that is on screen and not
\* skipped as judged: the notes after the one the scan stopped at are all
\* off screen, and so is every note skipped as behind the screen.
CullsOnlyTheInvisible(scan) ==
    /\ \A k \in 1..Len(scan.visits) :
         scan.visits[k].outcome \in {"below", "above"}
            => ~IsVisible(At(CachedNotes, scan.visits[k].index), scan.above)
    /\ \A i \in RunFromPointer(scan) :
         (IsVisible(At(CachedNotes, i), scan.above) /\ ~IsSkippedAsJudged(At(CachedNotes, i)))
            => i \in Rendered(scan)

\* C28: with aggressive culling, when the scan of a run stops at a note
\* beyond the visible range every later note of the run is off screen too,
\* whatever the speed and the y offsets, every note skipped as behind the
\* range is off screen, and no note that is on screen and not judged is
\* left unrendered.
C28_CullingSkipsOnlyInvisibleNotes ==
    (HasScanned /\ frame.cfg.aggressive) =>
        \A r \in 1..Len(Scans) : CullsOnlyTheInvisible(Scans[r])

\* The same statement for the runs of positive speed.
CullingIsExactForPositiveSpeed ==
    (HasScanned /\ frame.cfg.aggressive) =>
        \A r \in 1..Len(Scans) :
            At(CachedNotes, Scans[r].index).speed > 0 => CullsOnlyTheInvisible(Scans[r])

(***************************************************************************)
(* Claims about the indices the cache holds.                               *)
(***************************************************************************)
IsStrictlyIncreasing(seq) == \A i, j \in 1..Len(seq) : i < j => seq[i] < seq[j]

\* The first index of the run that index i lies in.
RunStartOf(notes, i) ==
    Least({p \in 0..i : \A k \in p..i : /\ At(notes, k).above = At(notes, i).above
                                        /\ At(notes, k).speed = At(notes, i).speed})

\* The pointers of one side: in range, on that side, strictly increasing
\* and in runs that differ.
PointersAreSound(notes, pointers, above) ==
    /\ IsStrictlyIncreasing(pointers)
    /\ \A k \in 1..Len(pointers) :
         /\ InRange(notes, pointers[k])
         /\ At(notes, pointers[k]).above = above
    /\ \A i, j \in 1..Len(pointers) :
         i # j => RunStartOf(notes, pointers[i]) # RunStartOf(notes, pointers[j])

ViewsAreSound(line) ==
    /\ IsStrictlyIncreasing(line.cache.update_order)
    /\ \A k \in 1..Len(line.cache.update_order) : InRange(line.notes, line.cache.update_order[k])
    /\ PointersAreSound(line.notes, line.cache.above_indices, TRUE)
    /\ PointersAreSound(line.notes, line.cache.below_indices, FALSE)

\* Between resets every pointer is an earlier pointer, moved forward inside
\* its run or left where it was, and the pointers keep their order.
PointersStayInTheirRuns(notes, before, after) ==
    \E kept \in SUBSET (1..Len(before)) :
        /\ Cardinality(kept) = Len(after)
        /\ \A k \in 1..Len(after) :
             LET from == before[CHOOSE i \in kept : Cardinality({j \in kept : j <= i}) = k]
             IN  after[k] \in RunFrom(notes, from)

\* C26: in every state reached from construction by updates, judgings and
\* resets the three views hold indices of notes of the line only,
\* update_order is strictly increasing, above_indices and below_indices are
\* strictly increasing with at most one pointer in a run of one side and
\* speed, an above pointer is on an above-side note and a below pointer on
\* a below-side note, and a step that is not a reset leaves every pointer in
\* the run it was in.
C26_ViewsHoldSoundIndices ==
    /\ \A l \in 1..Len(lines) : ViewsAreSound(lines[l])
    /\ [][/\ \A l \in 1..Len(lines') : ViewsAreSound(lines'[l])
          /\ op' # "reset" =>
               \A l \in 1..Len(lines) :
                  /\ PointersStayInTheirRuns(lines[l].notes, lines[l].cache.above_indices,
                                             lines'[l].cache.above_indices)
                  /\ PointersStayInTheirRuns(lines[l].notes, lines[l].cache.below_indices,
                                             lines'[l].cache.below_indices)]_vars

\* An update has moved a pointer forward inside its run and has taken a
\* dead note out of update_order.
C26_Witness ==
    /\ op = "update"
    /\ \E l \in 1..Len(lines) :
         \E p \in Elems(lines[l].cache.above_indices) \cup Elems(lines[l].cache.below_indices) :
              /\ p # RunStartOf(lines[l].notes, p)
              /\ Len(lines[l].cache.update_order) < Len(lines[l].notes)

\* C27: in every reachable state every note that is NotJudged is in
\* update_order and lies at or after a pointer of its own run in
\* above_indices or below_indices: the cache never drops or passes over a
\* note that has not been judged, whatever the order of the update times.
C27_UnjudgedNotesStayReachable ==
    \A l \in 1..Len(lines) : \A i \in NoteIds(lines[l]) :
        At(lines[l].notes, i).judge = "NotJudged" =>
            /\ i \in Elems(lines[l].cache.update_order)
            /\ \E p \in Elems(IF At(lines[l].notes, i).above
                              THEN lines[l].cache.above_indices
                              ELSE lines[l].cache.below_indices) :
                 i \in RunFrom(lines[l].notes, p)

\* After an update at a later time a pointer has passed a judged note and
\* stands on a note of the same run that is not judged and whose time has
\* come.
C27_Witness ==
    /\ op = "update"
    /\ \E l \in 1..Len(lines) : \E p \in Elems(lines[l].cache.above_indices \o lines[l].cache.below_indices) :
         /\ p # RunStartOf(lines[l].notes, p)
         /\ At(lines[l].notes, p).judge = "NotJudged"
         /\ At(lines[l].notes, p).time <= time
         /\ p \in Elems(lines[l].cache.update_order)

(***************************************************************************)
(* Claims about where Chart::new puts each line.                           *)
(***************************************************************************)
\* How often line it occurs in order and in the slots of attach_ui.
TimesInOrder(c, it) == Cardinality({k \in 1..Len(c.order) : c.order[k] = it})

TimesInAttachUi(c, it) == Cardinality({e \in 1..UIElements : c.attach_ui[e] = it})

LinePlacedOnce(c, it) ==
    /\ TimesInOrder(c, it) + TimesInAttachUi(c, it) = 1
    /\ c.lines[it].attach_ui = 0 => TimesInOrder(c, it) = 1
    /\ c.lines[it].attach_ui # 0 => c.attach_ui[c.lines[it].attach_ui] = it

SlotsAreDistinct(c) ==
    \A a, b \in 1..Len(c.lines) :
        a # b /\ c.lines[a].attach_ui # 0 => c.lines[a].attach_ui # c.lines[b].attach_ui

\* C29: after Chart construction from any list of judge lines every line
\* index occurs exactly once across order and attach_ui: a line without a
\* UI attachment is in order, a line attached to element k is the entry of
\* slot k, and no line is in neither or in both.
C29_EveryLineIsPlacedOnce ==
    \A it \in 1..Len(frame.lines) : LinePlacedOnce(frame, it)

\* Every line is placed once when no two lines are attached to one element;
\* no line is ever placed twice.
LinesPlacedOnceOnDistinctSlots ==
    /\ SlotsAreDistinct(frame) => C29_EveryLineIsPlacedOnce
    /\ \A it \in 1..Len(frame.lines) : TimesInOrder(frame, it) + TimesInAttachUi(frame, it) <= 1

(***************************************************************************)
(* The frames of an animated texture: GifFrames of core/line.rs.  A frame  *)
(* is the number of milliseconds it is shown for; the texture it carries   *)
(* is known by its place in the list.                                      *)
(***************************************************************************)
MaxFrames == 3
MaxFrameTime == 2
MaxGifTime == 5

FrameLists == SeqsUpTo(0..MaxFrameTime, MaxFrames)

RECURSIVE SumOfTimes(_)
SumOfTimes(frames) ==
    IF frames = <<>> THEN 0 ELSE Head(frames) + SumOfTimes(Tail(frames))

\* GifFrames::new: total_time is the sum of the frame times.
GifFramesNew(frames) == [frames |-> frames, total_time |-> SumOfTimes(frames)]

Returned(k) == [panic |-> FALSE, frame |-> k]
Panicked == [panic |-> TRUE, frame |-> 0]

\* The loop of get_time_frame from frame k on with what is left of time;
\* past the last frame it returns frames.last().unwrap().
RECURSIVE FrameFrom(_, _, _)
FrameFrom(frames, k, left) ==
    IF k > Len(frames)
    THEN IF frames = <<>> THEN Panicked ELSE Returned(Len(frames))
    ELSE IF left < frames[k] THEN Returned(k)
    ELSE FrameFrom(frames, k + 1, left - frames[k])

\* GifFrames::get_time_frame: time % self.total_time panics on a total of
\* zero, then the loop.
GetTimeFrame(gif, t) ==
    IF gif.total_time = 0 THEN Panicked ELSE FrameFrom(gif.frames, 1, t % gif.total_time)

NoLookup == [time |-> 0, result |-> Returned(0)]

InitGif ==
    /\ lines = <<>>
    /\ origin = <<>>
    /\ time = 0
    /\ op = "new"
    /\ bpm = NoBpm
    /\ parsed = NoParsed
    /\ speed_in = NoSpeedIn
    /\ height_out = NoHeightOut
    /\ anim = NoAnim
    /\ load = NoLoad
    /\ \E frames \in FrameLists : frame = [gif |-> GifFramesNew(frames), lookup |-> NoLookup]

\* One call of get_time_frame.
GifGetTimeFrame(t) ==
    /\ frame' = [frame EXCEPT !.lookup = [time |-> t, result |-> GetTimeFrame(frame.gif, t)]]
    /\ op' = "get_time_frame"
    /\ UNCHANGED <<lines, origin, time, bpm, parsed, speed_in, height_out, anim, load>>

NextGif == \E t \in 0..MaxGifTime : GifGetTimeFrame(t)

SpecGif == InitGif /\ [][NextGif]_vars

(***************************************************************************)
(* Claims about the frame lookup.                                          *)
(***************************************************************************)
HasLookedUp == op = "get_time_frame"

\* The time shown before frame k starts.
TimeBefore(frames, k) == SumOfTimes(SubSeq(frames, 1, k - 1))

\* Frame k is the one whose interval holds the time, wrapped around.
IsFrameOfTime(gif, k, t) ==
    /\ gif.total_time > 0
    /\ k \in 1..Len(gif.frames)
    /\ TimeBefore(gif.frames, k) <= t % gif.total_time
    /\ t % gif.total_time < TimeBefore(gif.frames, k) + gif.frames[k]

LookupIsRight ==
    /\ ~frame.lookup.result.panic
    /\ IsFrameOfTime(frame.gif, frame.lookup.result.frame, frame.lookup.time)

\* C30: for every frame list and every time get_time_frame returns a frame
\* without failing, and the frame it returns is the frame i with
\* sum of the times before i <= time mod total_time < sum of the times
\* through i.
C30_LookupReturnsTheFrameOfTheTime == HasLookedUp => LookupIsRight

\* With a total time above zero the lookup returns the frame of the time
\* and the frame of every time one period later is the same.
LookupIsRightForPositiveTotal ==
    HasLookedUp /\ frame.gif.total_time > 0 =>
        /\ LookupIsRight
        /\ GetTimeFrame(frame.gif, frame.lookup.time + frame.gif.total_time) = frame.lookup.result

====
